---- MODULE Spec2Model ----
(***************************************************************************)
(* TERALARM firmware: the clockface loop, the alarm latch, the alarm       *)
(* session (challenge, announcement, snooze countdown, snooze alert), the  *)
(* settings editors, the brightness UI and the boot sequence, as one state *)
(* machine.  One action is one iteration of the busy loop the firmware is  *)
(* in (or one straight-line stretch between two such loops); the inputs of *)
(* an iteration (button lines, the real-time clock, elapsed time) are      *)
(* drawn from small sets.                                                  *)
(***************************************************************************)
EXTENDS Integers, FiniteSets, Sequences, TLC

(* ------------------------------------------------------------------ *)
(* Bounds of the model                                                *)
(* ------------------------------------------------------------------ *)

\* minute boundaries the real-time clock crosses in one run
MaxTicks == 2

\* Up/Down presses the firmware acts on in one run
MaxEdits == 1

\* correct answers the user gives in one challenge
MaxPoints == 2

\* seconds of a snooze countdown followed one by one; past them the countdown
\* is followed to its expiry in one step
MaxSnoozeSteps == 1

\* columns and rows of the display BufferedLCD is followed on
LcdCols == 2
LcdRows == 2

\* characters in the longest string handed to print
MaxPrint == 2

(* ------------------------------------------------------------------ *)
(* Program constants                                                  *)
(* ------------------------------------------------------------------ *)

HoursPerDay == 24
MinsPerHour == 60
ChallengeMod == 100
BrightLevels == 18
AutoHalted == 255
ByteMod == 256
YearMin == 1000
YearMax == 9999
DaysMod == 31
MonthsMod == 12
DowBound == 7
StateBound == 2
DebounceMs == 100
WindowMs == 1000
SensorTop == 1024
FullLight == 255

Buttons == {1, 2, 3, 4}

NoLines == {}

(* ------------------------------------------------------------------ *)
(* Inputs the model draws                                             *)
(* ------------------------------------------------------------------ *)

\* what digitalRead may report for the four button lines in one sample
LineSamples == SUBSET Buttons

\* the samples drawn for the snooze countdown's chord check: no line, the two
\* chords that miss one outer line, all four lines
ChordSamples == {{}, {1, 2, 3}, {2, 3, 4}, {1, 2, 3, 4}}

\* what analogRead may report for the light sensor where the sampler is not
\* followed call by call: the device stays in a dim room
SensorSamples == {50}

\* what analogRead may report where the sampler is followed call by call:
\* a dim, a lit and a bright room
RoomSamples == {50, 420, 900}

\* persistent-store contents at power-on: alarm 07:00 and on, with
\* <<challenge, snooze seconds, brightness>> one of four combinations of
\* challenge none or 2, snooze none or 2 s, brightness automatic or level 5
InitCombos == {<<0, 0, 0>>, <<2, 2, 0>>, <<0, 2, 5>>, <<2, 0, 5>>}

InitEeproms ==
    { [a \in 0..6 |-> CASE a = 0 -> 7
                        [] a = 1 -> 0
                        [] a = 2 -> k[1]
                        [] a = 3 -> 0
                        [] a = 4 -> k[2]
                        [] a = 5 -> 1
                        [] a = 6 -> k[3]] : k \in InitCombos }

\* real-time clock at power-on: the minute before the alarm minute
InitClocks == {<<6, 59>>}

\* calendar at power-on: Saturday 31/12/2022
InitCalendar == [date |-> <<31, 12, 2022>>, dow |-> 6]

(* ------------------------------------------------------------------ *)
(* getPressed: debounce latch                                         *)
(* ------------------------------------------------------------------ *)

\* variant of CurPressed that tests the lines in the opposite order
CurPressedLowFirst(s) ==
    IF 4 \in s THEN 4
    ELSE IF 3 \in s THEN 3
    ELSE IF 2 \in s THEN 2
    ELSE IF 1 \in s THEN 1
    ELSE 0

\* the button getPressed identifies in one sample of the lines
CurPressed(s) ==
    IF 1 \in s THEN 1
    ELSE IF 2 \in s THEN 2
    ELSE IF 3 \in s THEN 3
    ELSE IF 4 \in s THEN 4
    ELSE 0

\* variant of PressRet that does not wait for the 100 ms
PressRetNoWait(cur, last, ok) ==
    IF cur > 0 /\ last = 0 THEN cur ELSE 0

\* return value of getPressed; ok: at least 100 ms since pressTimer
PressRet(cur, last, ok) ==
    IF cur > 0 /\ last = 0 /\ ok THEN cur ELSE 0

\* variant of PressLast that does not keep the press that was returned
PressLastForget(cur, last, ok) == 0

\* lastPressed after getPressed
PressLast(cur, last, ok) ==
    IF cur > 0 /\ last = 0 /\ ok THEN cur
    ELSE IF cur = 0 /\ last > 0 /\ ok THEN 0
    ELSE last

\* whether 100 ms have passed since pressTimer, after getPressed
PressOk(cur, last, ok) ==
    IF cur > 0 /\ last = 0 /\ ok THEN FALSE
    ELSE IF cur = 0 /\ last > 0 /\ ok THEN FALSE
    ELSE ok

\* one call of getPressed on sample s in debounce state d = [last, ok]
GetPressed(s, d) ==
    [ret  |-> PressRet(CurPressed(s), d.last, d.ok),
     last |-> PressLast(CurPressed(s), d.last, d.ok),
     ok   |-> PressOk(CurPressed(s), d.last, d.ok)]

\* debounce state after a call whose return value the caller drops
Absorb(s, d) == [last |-> GetPressed(s, d).last, ok |-> GetPressed(s, d).ok]

\* consumePress: one poll whose result is discarded
ConsumePress(s, d) == Absorb(s, d)

\* the results getPressed can give in debounce state d, over all samples
Polls(d) == { GetPressed(s, d) : s \in LineSamples }

\* debounce state left by the poll that gave r
Polled(r) == [last |-> r.last, ok |-> r.ok]

\* the debounce states consumePress can leave from debounce state d
Consumed(d) == { ConsumePress(s, d) : s \in LineSamples }

(* ------------------------------------------------------------------ *)
(* Settings arithmetic                                                *)
(* ------------------------------------------------------------------ *)

\* variant of LoadByte without the upper limit
LoadByteNoUpper(v, lo, hi, dflt) == IF v >= lo THEN v ELSE dflt

\* setup: a stored byte inside [lo,hi] is taken, otherwise the default
LoadByte(v, lo, hi, dflt) == IF v >= lo /\ v <= hi THEN v ELSE dflt

\* variant of BrightUp that steps from the highest level to off
BrightUpNoAuto(b) == IF b = 17 THEN 1 ELSE b + 1

BrightUp(b) == (b + 1) % BrightLevels

\* variant of BrightDown without the wrap
BrightDownPlain(b) == b - 1

BrightDown(b) == (b + 17) % BrightLevels

\* variant of HaltAuto that leaves automatic brightness running
HaltAutoNot(b) == b

\* soundAlarm / setup: automatic brightness is halted as 255
HaltAuto(b) == IF b = 0 THEN AutoHalted ELSE b

\* variant of ResumeAuto that leaves the halted value in place
ResumeAutoKeep(b) == b

\* soundAlarm: automatic brightness is resumed
ResumeAuto(b) == IF b = AutoHalted THEN 0 ELSE b

(* ------------------------------------------------------------------ *)
(* Backlight levels                                                   *)
(* ------------------------------------------------------------------ *)

\* variant of BrightCurve with the lower knee at 100
BrightCurveLowKnee(sensor) ==
    IF sensor >= 729 THEN 255
    ELSE IF sensor <= 100 THEN 1
    ELSE (20000 \div (800 - sensor)) - 28

\* brightCurve: 100.0 / (4.0 - 0.005 * sensor) - 28.0 is 20000 / (800 - sensor)
\* - 28, and the conversion to byte drops the fraction
BrightCurve(sensor) ==
    IF sensor >= 729 THEN 255
    ELSE IF sensor <= 110 THEN 1
    ELSE (20000 \div (800 - sensor)) - 28

\* backlight value of manual level b: off at 1, else the curve of
\* 41.3 * (b - 2) + 110 converted to short
ManualLevel(b) ==
    IF b = 1 THEN 0 ELSE BrightCurve(110 + ((413 * (b - 2)) \div 10))

\* what setup, updateBrightness and soundAlarm write for brightness b: the
\* curve of the sensor reading when automatic, the manual level otherwise
LevelsFor(b) ==
    IF b = 0 THEN { BrightCurve(s) : s \in SensorSamples } ELSE { ManualLevel(b) }

\* variant of Midpoint that takes the brightest reading
MidpointHigh(lo, hi) == hi

\* getPressed: the value the curve is applied to at the end of a window
Midpoint(lo, hi) == (hi + lo) \div 2

\* the values getPressed can write at the end of a window
AutoLevels ==
    { BrightCurve(Midpoint(w[1], w[2])) :
          w \in { v \in SensorSamples \X SensorSamples : v[1] <= v[2] } }

\* backlight after a call of getPressed in brightness b, bl before it: the
\* window may or may not have ended, and is acted on only in automatic mode
AutoWrites(b, bl) == IF b = 0 THEN {bl} \cup AutoLevels ELSE {bl}

VARIABLES
    pc,              \* where the firmware is
    clock,           \* real-time clock <<hour, minute>>
    rtcDate,         \* real-time clock <<day, month, year>>
    rtcDow,          \* real-time clock weekday 1..7
    ticks,           \* minute boundaries crossed so far
    ticked,          \* a minute boundary was crossed since the last program step
    eeprom,          \* persistent store, addresses 0..6
    alarmHrs, alarmMins, alarmChallenge, alarmSnoozeMins, alarmSnoozeSecs,
    alarmState, brightness,
    alarmDisabled,   \* loop's static latch
    timeObj,         \* <<hour, minute>> of the shared time object
    points, num,     \* soundAlarm: score and target
    pressed,         \* soundAlarm and the editors: value getPressed returned in the
                     \* last step
    lines,           \* button lines the snooze countdown read in the last step
    snoozeElapsed,   \* soundAlarm: whole seconds of (millis() - snoozeTimer)
    deb,             \* getPressed statics: [last |-> lastPressed, ok |-> 100 ms passed]
    ed,              \* editor locals: [a, b, c |-> values, f |-> selected field]
    edits,           \* Up/Down presses acted on so far
    entryBright,     \* history: brightness when soundAlarm was entered
    sounded,         \* history: soundAlarm entered since clock or settings last changed
    reached,         \* history: the clock ticked into the alarm minute with the alarm on
                     \* and the device at the clockface, in an editor, the brightness
                     \* UI or debug mode
    backlight,       \* value last written to the backlight pin
    smp,             \* getPressed followed in milliseconds: its timers and window,
                     \* and histories of the lines and of its reports
    trail            \* history: brightness steps taken [start, ups, downs]

vars == <<pc, clock, rtcDate, rtcDow, ticks, ticked, eeprom, alarmHrs, alarmMins,
          alarmChallenge, alarmSnoozeMins, alarmSnoozeSecs, alarmState, brightness,
          alarmDisabled, timeObj, points, num, pressed, lines, snoozeElapsed, deb,
          ed, edits, entryBright, sounded, reached, backlight, smp, trail>>

settings == <<alarmHrs, alarmMins, alarmChallenge, alarmSnoozeMins, alarmSnoozeSecs,
              alarmState>>

rtc == <<clock, rtcDate, rtcDow>>

session == <<points, num, snoozeElapsed>>

\* getPressed before its first call: pressTimer 0 with millis() past 100,
\* the window empty and brightTimer just set; no line active, nothing
\* reported, no background() running
SmpStart ==
    [pressAge |-> DebounceMs, brightAge |-> 0,
     minSensor |-> SensorTop, maxSensor |-> 0,
     cur |-> 0, ret |-> 0, wrote |-> FALSE,
     room |-> SensorSamples, keys |-> {},
     lineAge |-> [b \in Buttons |-> -1],
     held |-> {}, holding |-> FALSE, repAge |-> -1, idleAge |-> -1,
     again |-> FALSE, acted |-> {}, quiet |-> {},
     seen |-> {},
     bgAge |-> 0, bgDur |-> 0]

\* no brightness step taken
NoTrail == [start |-> 0, ups |-> 0, downs |-> 0]

\* editor locals while no editor is open
NoEd == [a |-> 0, b |-> 0, c |-> 0, f |-> 0]

Init ==
    /\ pc = "boot"
    /\ clock \in InitClocks
    /\ rtcDate = InitCalendar.date
    /\ rtcDow = InitCalendar.dow
    /\ ticks = 0
    /\ ticked = FALSE
    /\ eeprom \in InitEeproms
    /\ alarmHrs = 0 /\ alarmMins = 0 /\ alarmChallenge = 0
    /\ alarmSnoozeMins = 0 /\ alarmSnoozeSecs = 0
    /\ alarmState = FALSE
    /\ brightness = 0
    /\ alarmDisabled = FALSE
    /\ timeObj = <<0, 0>>
    /\ points = 0 /\ num = 0
    /\ pressed = 0
    /\ lines = NoLines
    /\ snoozeElapsed = 0
    /\ deb = [last |-> 0, ok |-> TRUE]
    /\ ed = NoEd
    /\ edits = 0
    /\ entryBright = 0
    /\ sounded = FALSE
    /\ reached = FALSE
    /\ backlight = 0
    /\ smp = SmpStart
    /\ trail = NoTrail


(* ------------------------------------------------------------------ *)
(* Steps shared by the actions                                        *)
(* ------------------------------------------------------------------ *)

AlarmPcs == {"prompt", "poll", "correct", "incorrect", "announce",
             "snooze", "skipped", "alert", "dismissed"}

EditorPcs == {"setTime", "setDate", "setDow",
              "setAlarm", "setChallenge", "setSnooze", "setState"}

\* the clockface and the interfaces opened from it
UiPcs == {"loop", "brightUI", "debug"} \cup EditorPcs

\* every debounce state a stretch of background() polling can end in
DebStates == [last : 0..4, ok : BOOLEAN]

\* debounce state after a delay() of 100 ms or more: no poll, time passes
AfterDelay(d) == [last |-> d.last, ok |-> TRUE]

AlarmTime == <<alarmHrs, alarmMins>>

\* variant of AlarmDue that does not consult the latch
AlarmDueNoLatch(t, dis) ==
    t[1] = alarmHrs /\ t[2] = alarmMins /\ alarmState

\* loop: the alarm is to sound
AlarmDue(t, dis) ==
    t[1] = alarmHrs /\ t[2] = alarmMins /\ ~dis /\ alarmState

\* loop: the latch after the statement that follows the alarm test
LatchAfter(t, dis) ==
    IF (t[1] # alarmHrs \/ t[2] # alarmMins) /\ dis THEN FALSE ELSE dis

\* a program step was taken: the next minute boundary may fall after it
Stepped == ticked' = FALSE /\ UNCHANGED <<smp, trail>>

\* the step calls getPressed, on its own or through background or
\* consumePress, with the brightness it started with
Sampled == backlight' \in AutoWrites(brightness, backlight)

(* ------------------------------------------------------------------ *)
(* Environment: the real-time clock and the passing of time           *)
(* ------------------------------------------------------------------ *)

NextMinute(t) ==
    IF t[2] + 1 < MinsPerHour THEN <<t[1], t[2] + 1>>
    ELSE <<(t[1] + 1) % HoursPerDay, 0>>

\* the real-time clock crosses a minute boundary; no program step lasts a
\* minute, so at most one boundary falls between two program steps
Tick ==
    /\ ticks < MaxTicks
    /\ ~ticked
    /\ clock' = NextMinute(clock)
    /\ ticks' = ticks + 1
    /\ ticked' = TRUE
    /\ sounded' = FALSE
    /\ reached' = (pc \in UiPcs /\ NextMinute(clock) = AlarmTime /\ alarmState)
    /\ UNCHANGED <<pc, rtcDate, rtcDow, eeprom, settings, brightness, alarmDisabled,
                   timeObj, session, pressed, lines, deb, ed, edits, entryBright,
                   backlight, smp, trail>>

\* 100 ms pass since pressTimer was last set
Elapse ==
    /\ ~deb.ok
    /\ deb' = [deb EXCEPT !.ok = TRUE]
    /\ UNCHANGED <<pc, rtc, ticks, ticked, eeprom, settings, brightness, alarmDisabled,
                   timeObj, session, pressed, lines, ed, edits, entryBright,
                   sounded, reached, backlight, smp, trail>>

(* ------------------------------------------------------------------ *)
(* setup and the secret countdown                                     *)
(* ------------------------------------------------------------------ *)

\* variant of AllHeld that leaves out the fourth line
AllHeldThree(l) == 1 \in l /\ 2 \in l /\ 3 \in l

\* all four button lines read active
AllHeld(l) == 1 \in l /\ 2 \in l /\ 3 \in l /\ 4 \in l

Setup ==
    /\ pc = "boot"
    /\ alarmHrs' = LoadByte(eeprom[0], 0, 23, 0)
    /\ alarmMins' = LoadByte(eeprom[1], 0, 59, 0)
    /\ alarmChallenge' = LoadByte(eeprom[2], 0, 99, 10)
    /\ alarmSnoozeMins' = LoadByte(eeprom[3], 0, 59, 0)
    /\ alarmSnoozeSecs' = LoadByte(eeprom[4], 0, 59, 0)
    /\ alarmState' = (eeprom[5] = 1)
    /\ \E l \in LineSamples, d \in Consumed(deb) :
          /\ deb' = d
          /\ IF AllHeld(l)
             THEN /\ brightness' = HaltAuto(LoadByte(eeprom[6], 0, 17, 0))
                  /\ backlight' = FullLight
                  /\ pc' = "secretWait"
             ELSE /\ brightness' = LoadByte(eeprom[6], 0, 17, 0)
                  /\ \E w \in LevelsFor(LoadByte(eeprom[6], 0, 17, 0)) :
                        backlight' \in AutoWrites(LoadByte(eeprom[6], 0, 17, 0), w)
                  /\ pc' = "loop"
    /\ pressed' = 0
    /\ lines' = NoLines
    /\ Stepped
    /\ UNCHANGED <<rtc, ticks, eeprom, alarmDisabled, timeObj, session, ed, edits,
                   entryBright, sounded, reached>>

\* secretTimer: wait for any press, then count down, then blink forever
SecretWait ==
    /\ pc = "secretWait"
    /\ \E r \in Polls(deb) :
          /\ pressed' = 0
          /\ IF r.ret = 0
             THEN /\ deb' = Polled(r)
                  /\ pc' = "secretWait"
             ELSE /\ \E d \in Consumed(Polled(r)) : deb' = d
                  /\ pc' = "secretCount"
    /\ lines' = NoLines
    /\ Sampled
    /\ Stepped
    /\ UNCHANGED <<rtc, ticks, eeprom, settings, brightness, alarmDisabled, timeObj,
                   session, ed, edits, entryBright, sounded, reached>>

SecretCount ==
    /\ pc = "secretCount"
    /\ \E over \in BOOLEAN : pc' = IF over THEN "secretDone" ELSE "secretCount"
    /\ pressed' = 0
    /\ lines' = NoLines
    /\ Sampled
    /\ Stepped
    /\ UNCHANGED <<rtc, ticks, eeprom, settings, brightness, alarmDisabled, timeObj,
                   session, deb, ed, edits, entryBright, sounded, reached>>


(* ------------------------------------------------------------------ *)
(* loop: the clockface                                                *)
(* ------------------------------------------------------------------ *)

\* editor locals when an editor opens on values a, b, c
OpenEd(a, b, c) == [a |-> a, b |-> b, c |-> c, f |-> 0]

\* updateBrightness stores the brightness on every call
StoreBrightness(e, b) == [e EXCEPT ![4] = b]

\* loop from the latch check on: t is the time object, dis the latch and d the
\* debounce state at that point
LoopTail(t, dis, d) ==
    /\ alarmDisabled' = LatchAfter(t, dis)
    /\ \E r \in Polls(d) :
          LET d1 == Polled(r) IN
          /\ pressed' = 0
          /\ CASE r.ret = 1 ->
                    /\ timeObj' = clock
                    /\ \E d2 \in Consumed(d1) : deb' = d2
                    /\ ed' = OpenEd(clock[1], clock[2], 0)
                    /\ pc' = "setTime"
                    /\ Sampled
                    /\ UNCHANGED <<brightness, eeprom, edits>>
               [] r.ret = 2 ->
                    /\ timeObj' = t
                    /\ \E d2 \in Consumed(d1) : deb' = d2
                    /\ ed' = OpenEd(alarmHrs, alarmMins, 0)
                    /\ pc' = "setAlarm"
                    /\ Sampled
                    /\ UNCHANGED <<brightness, eeprom, edits>>
               [] r.ret = 3 ->
                    /\ edits < MaxEdits
                    /\ edits' = edits + 1
                    /\ timeObj' = t
                    /\ deb' = d1
                    /\ brightness' = BrightUp(brightness)
                    /\ eeprom' = StoreBrightness(eeprom, BrightUp(brightness))
                    /\ backlight' \in LevelsFor(BrightUp(brightness))
                    /\ pc' = "brightUI"
                    /\ UNCHANGED ed
               [] r.ret = 4 ->
                    /\ edits < MaxEdits
                    /\ edits' = edits + 1
                    /\ timeObj' = t
                    /\ deb' = d1
                    /\ brightness' = BrightDown(brightness)
                    /\ eeprom' = StoreBrightness(eeprom, BrightDown(brightness))
                    /\ backlight' \in LevelsFor(BrightDown(brightness))
                    /\ pc' = "brightUI"
                    /\ UNCHANGED ed
               [] OTHER ->
                    /\ timeObj' = t
                    /\ deb' = d1
                    /\ pc' = "loop"
                    /\ Sampled
                    /\ UNCHANGED <<brightness, eeprom, ed, edits>>

\* one pass of loop in which the alarm is not due
LoopIdle ==
    /\ pc = "loop"
    /\ ~AlarmDue(clock, alarmDisabled)
    /\ LoopTail(clock, alarmDisabled, deb)
    /\ lines' = NoLines
    /\ Stepped
    /\ UNCHANGED <<rtc, ticks, settings, session, entryBright, sounded, reached>>

\* one pass of loop in which the alarm is due: soundAlarm is entered
LoopFire ==
    /\ pc = "loop"
    /\ AlarmDue(clock, alarmDisabled)
    /\ timeObj' = clock
    /\ \E d \in Consumed(deb) : deb' = d
    /\ points' = 0
    /\ brightness' = HaltAuto(brightness)
    /\ entryBright' = brightness
    /\ \E n \in 1..4 : num' = n
    /\ pc' = "prompt"
    /\ sounded' = TRUE
    /\ pressed' = 0
    /\ lines' = NoLines
    /\ backlight' = FullLight
    /\ Stepped
    /\ UNCHANGED <<rtc, ticks, eeprom, settings, alarmDisabled, snoozeElapsed, ed,
                   edits, reached>>

\* soundAlarm has returned (its locals are gone): the latch is set and the
\* pass of loop completes
AfterAlarm ==
    /\ pc = "afterAlarm"
    /\ \E d \in Consumed(deb) : LoopTail(timeObj, TRUE, d)
    /\ points' = 0 /\ num' = 0 /\ snoozeElapsed' = 0
    /\ entryBright' = 0
    /\ lines' = NoLines
    /\ Stepped
    /\ UNCHANGED <<rtc, ticks, settings, sounded, reached>>

(* ------------------------------------------------------------------ *)
(* updateBrightness and debug                                         *)
(* ------------------------------------------------------------------ *)

\* one iteration of the 2 s wait of updateBrightness, or its end
BrightPoll ==
    /\ pc = "brightUI"
    /\ \E expired \in BOOLEAN :
          IF expired
          THEN /\ \E l \in LineSamples :
                    pc' = IF 1 \in l /\ 2 \in l THEN "debug" ELSE "loop"
               /\ lines' = NoLines
               /\ pressed' = 0
               /\ \E d \in Consumed(deb) : deb' = d
               /\ Sampled
               /\ UNCHANGED <<brightness, eeprom, edits>>
          ELSE \E r \in Polls(deb) :
               /\ lines' = NoLines
               /\ pressed' = 0
               /\ deb' = Polled(r)
               /\ pc' = "brightUI"
               /\ CASE r.ret = 3 ->
                         /\ edits < MaxEdits
                         /\ edits' = edits + 1
                         /\ brightness' = BrightUp(brightness)
                         /\ eeprom' = StoreBrightness(eeprom, BrightUp(brightness))
                         /\ backlight' \in LevelsFor(BrightUp(brightness))
                    [] r.ret = 4 ->
                         /\ edits < MaxEdits
                         /\ edits' = edits + 1
                         /\ brightness' = BrightDown(brightness)
                         /\ eeprom' = StoreBrightness(eeprom, BrightDown(brightness))
                         /\ backlight' \in LevelsFor(BrightDown(brightness))
                    [] OTHER -> Sampled /\ UNCHANGED <<brightness, eeprom, edits>>
    /\ Stepped
    /\ UNCHANGED <<rtc, ticks, settings, alarmDisabled, timeObj, session, ed,
                   entryBright, sounded, reached>>

\* one iteration of debug: any press leaves it, back to the clockface
DebugPoll ==
    /\ pc = "debug"
    /\ \E r \in Polls(deb) :
          /\ pressed' = 0
          /\ IF r.ret = 0
             THEN /\ deb' = Polled(r)
                  /\ pc' = "debug"
             ELSE /\ \E d \in Consumed(Polled(r)) : deb' = d
                  /\ pc' = "loop"
    /\ lines' = NoLines
    /\ Sampled
    /\ Stepped
    /\ UNCHANGED <<rtc, ticks, eeprom, settings, brightness, alarmDisabled, timeObj,
                   session, ed, edits, entryBright, sounded, reached>>


(* ------------------------------------------------------------------ *)
(* soundAlarm: challenge                                              *)
(* ------------------------------------------------------------------ *)

\* variant of ChallengeDone that ends the question loop one point early
ChallengeDoneEarly(p, c) == ~(p + 1 < c)

\* the do-while condition of the question loop, negated
ChallengeDone(p, c) == ~(p < c)

\* variant of IncPoints that counts a correct answer twice
IncPointsTwice(p) == (p + 2) % ByteMod

\* points after a correct answer (a byte)
IncPoints(p) == (p + 1) % ByteMod

\* variant of DecPoints without the guard: the byte wraps at 0
DecPointsWrap(p) == (p + 255) % ByteMod

\* points after an incorrect answer: no decrement at 0
DecPoints(p) == IF p # 0 THEN p - 1 ELSE p

\* variant of NextTarget that draws a new target after every answer
NextTargetAlways(correct, target) == 1..4

\* the targets of the next prompt: random(1, 5) is called again only after
\* the break that follows a correct answer
NextTarget(correct, target) == IF correct THEN 1..4 ELSE {target}

\* variant of Answer in which any press is the press that ends a session
\* without challenge
AnswerAnyPress(p, target, c) == IF p = 0 THEN "none" ELSE "any"

\* how the challenge loop takes the value getPressed returned
Answer(p, target, c) ==
    IF p = 0 THEN "none"
    ELSE IF c <= 0 THEN "any"
    ELSE IF p = target THEN "correct"
    ELSE "incorrect"

\* one iteration of the inner loop of the challenge; at "prompt" the one-second
\* redraw is due and reads the clock, at "poll" it may or may not be
ChallengePoll ==
    /\ pc \in {"prompt", "poll"}
    /\ \E redraw \in (IF pc = "prompt" THEN {TRUE} ELSE BOOLEAN) :
          timeObj' = IF redraw THEN clock ELSE timeObj
    /\ \E r \in Polls(deb) :
          LET a == Answer(r.ret, num, alarmChallenge) IN
          /\ pressed' = r.ret
          /\ CASE a = "none" ->
                    /\ deb' = Polled(r)
                    /\ pc' = "poll"
                    /\ UNCHANGED <<points, num>>
               [] a = "any" ->
                    /\ \E d \in Consumed(Polled(r)) : deb' = d
                    /\ IF ChallengeDone(points, alarmChallenge)
                       THEN pc' = "announce" /\ UNCHANGED num
                       ELSE pc' = "prompt" /\ \E n \in 1..4 : num' = n
                    /\ UNCHANGED points
               [] a = "correct" ->
                    /\ points < MaxPoints
                    /\ deb' = Polled(r)
                    /\ points' = IncPoints(points)
                    /\ pc' = "correct"
                    /\ UNCHANGED num
               [] a = "incorrect" ->
                    /\ deb' = Polled(r)
                    /\ points' = DecPoints(points)
                    /\ pc' = "incorrect"
                    /\ UNCHANGED num
    /\ lines' = NoLines
    /\ Sampled
    /\ Stepped
    /\ UNCHANGED <<rtc, ticks, eeprom, settings, brightness, alarmDisabled,
                   snoozeElapsed, ed, edits, entryBright, sounded, reached>>

\* the second of CORRECT! / INCORRECT! feedback ends
FeedbackEnd ==
    /\ pc \in {"correct", "incorrect"}
    /\ \E d \in Consumed(AfterDelay(deb)) : deb' = d
    /\ IF pc = "correct" /\ ChallengeDone(points, alarmChallenge)
       THEN pc' = "announce" /\ UNCHANGED num
       ELSE pc' = "prompt" /\ num' \in NextTarget(pc = "correct", num)
    /\ pressed' = 0
    /\ lines' = NoLines
    /\ Sampled
    /\ Stepped
    /\ UNCHANGED <<rtc, ticks, eeprom, settings, brightness, alarmDisabled, timeObj,
                   points, snoozeElapsed, ed, edits, entryBright, sounded, reached>>

(* ------------------------------------------------------------------ *)
(* soundAlarm: announcement, snooze countdown, snooze alert           *)
(* ------------------------------------------------------------------ *)

\* variant of SnoozeOff that takes either part being 0 for NONE
SnoozeOffEither(m, s) == m = 0 \/ s = 0

\* snooze is set to NONE
SnoozeOff(m, s) == m = 0 /\ s = 0

\* the snooze period in seconds
SnoozeSecs(m, s) == (m * 60) + s

\* whole seconds elapsed that the next evaluation of the countdown's loop
\* condition can see, e seen by the last one
ElapsedNext(e, total) ==
    {e} \cup (IF e < MaxSnoozeSteps THEN {e + 1} ELSE {total})

\* variant of AlertGoesOn that only Confirm ends
AlertGoesOnButFirst(p) == p # 1

\* the snooze alert loop goes on
AlertGoesOn(p) == p = 0

\* ALARM DISABLED! has been shown: brightness is restored, then either
\* soundAlarm returns or the countdown starts
AnnounceEnd ==
    /\ pc = "announce"
    /\ deb' = AfterDelay(deb)
    /\ brightness' = ResumeAuto(brightness)
    /\ IF SnoozeOff(alarmSnoozeMins, alarmSnoozeSecs)
       THEN pc' = "afterAlarm"
       ELSE pc' = "snooze"
    /\ snoozeElapsed' = 0
    /\ pressed' = 0
    /\ lines' = NoLines
    /\ backlight' \in LevelsFor(ResumeAuto(brightness))
    /\ Stepped
    /\ UNCHANGED <<rtc, ticks, eeprom, settings, alarmDisabled, timeObj, points, num,
                   ed, edits, entryBright, sounded, reached>>

\* one evaluation of the countdown's loop condition, then its body or its exit
SnoozePoll ==
    /\ pc = "snooze"
    /\ \E e \in ElapsedNext(snoozeElapsed,
                            SnoozeSecs(alarmSnoozeMins, alarmSnoozeSecs)) :
          /\ snoozeElapsed' = e
          /\ pressed' = 0
          /\ IF e < SnoozeSecs(alarmSnoozeMins, alarmSnoozeSecs)
             THEN /\ UNCHANGED brightness
                  /\ Sampled
                  /\ \E r \in Polls(deb), l \in ChordSamples :
                        /\ lines' = l
                        /\ IF AllHeld(l)
                           THEN /\ \E d \in Consumed(Polled(r)) : deb' = d
                                /\ pc' = "skipped"
                           ELSE /\ deb' = Polled(r)
                                /\ pc' = "snooze"
             ELSE /\ lines' = NoLines
                  /\ brightness' = HaltAuto(brightness)
                  /\ backlight' = FullLight
                  /\ \E d \in Consumed(deb) : deb' = d
                  /\ pc' = "alert"
    /\ Stepped
    /\ UNCHANGED <<rtc, ticks, eeprom, settings, alarmDisabled, timeObj, points, num,
                   ed, edits, entryBright, sounded, reached>>

\* SNOOZE SKIPPED! has been shown while background() polled: soundAlarm returns
SkippedEnd ==
    /\ pc = "skipped"
    /\ \E d \in DebStates : deb' = d
    /\ pc' = "afterAlarm"
    /\ pressed' = 0
    /\ lines' = NoLines
    /\ Sampled
    /\ Stepped
    /\ UNCHANGED <<rtc, ticks, eeprom, settings, brightness, alarmDisabled, timeObj,
                   session, ed, edits, entryBright, sounded, reached>>

\* one iteration of the snooze alert loop
AlertPoll ==
    /\ pc = "alert"
    /\ \E r \in Polls(deb) :
          /\ pressed' = r.ret
          /\ IF AlertGoesOn(r.ret)
             THEN /\ deb' = Polled(r)
                  /\ pc' = "alert"
             ELSE /\ \E d \in Consumed(Polled(r)) : deb' = d
                  /\ pc' = "dismissed"
    /\ lines' = NoLines
    /\ Sampled
    /\ Stepped
    /\ UNCHANGED <<rtc, ticks, eeprom, settings, brightness, alarmDisabled, timeObj,
                   session, ed, edits, entryBright, sounded, reached>>

\* DISMISSED! has been shown: brightness is restored and soundAlarm returns
DismissedEnd ==
    /\ pc = "dismissed"
    /\ deb' = AfterDelay(deb)
    /\ brightness' = ResumeAuto(brightness)
    /\ pc' = "afterAlarm"
    /\ pressed' = 0
    /\ lines' = NoLines
    /\ backlight' \in LevelsFor(ResumeAuto(brightness))
    /\ Stepped
    /\ UNCHANGED <<rtc, ticks, eeprom, settings, alarmDisabled, timeObj, session,
                   ed, edits, entryBright, sounded, reached>>


(* ------------------------------------------------------------------ *)
(* Settings editors: chTime, chMinsSecs, chDate, chArray, chChallenge *)
(* ------------------------------------------------------------------ *)

\* variant of HourUp that wraps one value late
HourUpLate(v) == (v + 1) % (HoursPerDay + 1)

HourUp(v) == (v + 1) % HoursPerDay
HourDown(v) == (v + 23) % HoursPerDay
MinUp(v) == (v + 1) % MinsPerHour
MinDown(v) == (v + 59) % MinsPerHour
\* variant of DayUp that treats the day as zero-based
DayUpZeroBased(v) == (v + 1) % DaysMod

DayUp(v) == (v % DaysMod) + 1

\* variant of DayDown that treats the day as zero-based
DayDownZeroBased(v) == (v + 30) % DaysMod

DayDown(v) == ((v + 29) % DaysMod) + 1
MonthUp(v) == (v % MonthsMod) + 1
MonthDown(v) == ((v + 10) % MonthsMod) + 1
\* variant of YearUp without the upper limit
YearUpNoLimit(v) == v + 1

YearUp(v) == IF v < YearMax THEN v + 1 ELSE v
YearDown(v) == IF v > YearMin THEN v - 1 ELSE v
IndexUp(v, bound) == (v % bound) + 1
IndexDown(v, bound) == ((v + bound - 2) % bound) + 1
ChallengeUp(v) == (v + 1) % ChallengeMod
ChallengeDown(v) == (v + 99) % ChallengeMod

\* variant of NumFields in which chDate returns after the month
NumFieldsDateTwo(p) ==
    CASE p \in {"setTime", "setAlarm", "setSnooze", "setDate"} -> 2
      [] OTHER -> 1

\* number of fields of the editor open at p
NumFields(p) ==
    CASE p \in {"setTime", "setAlarm", "setSnooze"} -> 2
      [] p = "setDate" -> 3
      [] OTHER -> 1

\* variant of EdUp in which chMinsSecs raises the minutes whichever field is
\* selected
EdUpMinsOnly(p, e) ==
    CASE p \in {"setTime", "setAlarm"} ->
              IF e.f = 0 THEN [e EXCEPT !.a = HourUp(e.a)]
              ELSE [e EXCEPT !.b = MinUp(e.b)]
      [] p = "setSnooze" -> [e EXCEPT !.a = MinUp(e.a)]
      [] p = "setDate" ->
              IF e.f = 0 THEN [e EXCEPT !.a = DayUp(e.a)]
              ELSE IF e.f = 1 THEN [e EXCEPT !.b = MonthUp(e.b)]
              ELSE [e EXCEPT !.c = YearUp(e.c)]
      [] p = "setDow" -> [e EXCEPT !.a = IndexUp(e.a, DowBound)]
      [] p = "setState" -> [e EXCEPT !.a = IndexUp(e.a, StateBound)]
      [] p = "setChallenge" -> [e EXCEPT !.a = ChallengeUp(e.a)]

\* editor locals after Up in the editor open at p
EdUp(p, e) ==
    CASE p \in {"setTime", "setAlarm"} ->
              IF e.f = 0 THEN [e EXCEPT !.a = HourUp(e.a)]
              ELSE [e EXCEPT !.b = MinUp(e.b)]
      [] p = "setSnooze" ->
              IF e.f = 0 THEN [e EXCEPT !.a = MinUp(e.a)]
              ELSE [e EXCEPT !.b = MinUp(e.b)]
      [] p = "setDate" ->
              IF e.f = 0 THEN [e EXCEPT !.a = DayUp(e.a)]
              ELSE IF e.f = 1 THEN [e EXCEPT !.b = MonthUp(e.b)]
              ELSE [e EXCEPT !.c = YearUp(e.c)]
      [] p = "setDow" -> [e EXCEPT !.a = IndexUp(e.a, DowBound)]
      [] p = "setState" -> [e EXCEPT !.a = IndexUp(e.a, StateBound)]
      [] p = "setChallenge" -> [e EXCEPT !.a = ChallengeUp(e.a)]

\* editor locals after Down in the editor open at p
EdDown(p, e) ==
    CASE p \in {"setTime", "setAlarm"} ->
              IF e.f = 0 THEN [e EXCEPT !.a = HourDown(e.a)]
              ELSE [e EXCEPT !.b = MinDown(e.b)]
      [] p = "setSnooze" ->
              IF e.f = 0 THEN [e EXCEPT !.a = MinDown(e.a)]
              ELSE [e EXCEPT !.b = MinDown(e.b)]
      [] p = "setDate" ->
              IF e.f = 0 THEN [e EXCEPT !.a = DayDown(e.a)]
              ELSE IF e.f = 1 THEN [e EXCEPT !.b = MonthDown(e.b)]
              ELSE [e EXCEPT !.c = YearDown(e.c)]
      [] p = "setDow" -> [e EXCEPT !.a = IndexDown(e.a, DowBound)]
      [] p = "setState" -> [e EXCEPT !.a = IndexDown(e.a, StateBound)]
      [] p = "setChallenge" -> [e EXCEPT !.a = ChallengeDown(e.a)]

\* debounce states after confirm() or cancel(): background() polling, then
\* consumePress
AfterBanner == { ConsumePress(s, d) : s \in LineSamples, d \in DebStates }

\* variant of Returns in which Cancel is honoured on the first field only
ReturnsCancelFirstOnly(p, f, ret) ==
    IF ret = 1 /\ f + 1 = NumFields(p) THEN "true"
    ELSE IF ret = 2 /\ f = 0 THEN "false"
    ELSE "none"

\* what the editor open at p does with the value getPressed returned, the
\* field f being selected: return true, return false, or go on
Returns(p, f, ret) ==
    IF ret = 1 /\ f + 1 = NumFields(p) THEN "true"
    ELSE IF ret = 2 THEN "false"
    ELSE "none"

\* one iteration of an editor's loop that does not return true: nothing
\* pressed, Confirm on a field that is not the last, Cancel, Up or Down
EditorPoll ==
    /\ pc \in EditorPcs
    /\ \E r \in Polls(deb) :
          /\ pressed' = r.ret
          /\ Returns(pc, ed.f, r.ret) # "true"
          /\ CASE Returns(pc, ed.f, r.ret) = "false" ->
                    /\ pc' = "loop"
                    /\ \E d \in AfterBanner : deb' = d
                    /\ ed' = NoEd
                    /\ UNCHANGED edits
               [] r.ret = 3 ->
                    /\ edits < MaxEdits
                    /\ edits' = edits + 1
                    /\ ed' = EdUp(pc, ed)
                    /\ deb' = Polled(r)
                    /\ UNCHANGED pc
               [] r.ret = 4 ->
                    /\ edits < MaxEdits
                    /\ edits' = edits + 1
                    /\ ed' = EdDown(pc, ed)
                    /\ deb' = Polled(r)
                    /\ UNCHANGED pc
               [] r.ret = 1 ->
                    /\ ed' = [ed EXCEPT !.f = ed.f + 1]
                    /\ \E d \in Consumed(Polled(r)) : deb' = d
                    /\ UNCHANGED <<pc, edits>>
               [] OTHER ->
                    /\ deb' = Polled(r)
                    /\ UNCHANGED <<pc, ed, edits>>
    /\ lines' = NoLines
    /\ Sampled
    /\ Stepped
    /\ UNCHANGED <<rtc, ticks, eeprom, settings, brightness, alarmDisabled, timeObj,
                   session, entryBright, sounded, reached>>

\* Confirm is read with the last field selected: the editor returns true
Confirmed(p) ==
    /\ pc = p
    /\ \E r \in Polls(deb) : Returns(p, ed.f, r.ret) = "true"
    /\ pressed' = 1
    /\ \E d \in AfterBanner : deb' = d
    /\ lines' = NoLines
    /\ Sampled
    /\ Stepped

\* time setup: SET TIME confirmed, the date editor opens
CommitTime ==
    /\ Confirmed("setTime")
    /\ clock' = <<ed.a, ed.b>>
    /\ sounded' = IF <<ed.a, ed.b>> # clock THEN FALSE ELSE sounded
    /\ reached' = FALSE
    /\ ed' = OpenEd(rtcDate[1], rtcDate[2], rtcDate[3])
    /\ pc' = "setDate"
    /\ UNCHANGED <<rtcDate, rtcDow, ticks, eeprom, settings, brightness, alarmDisabled,
                   timeObj, session, edits, entryBright>>

\* time setup: SET DATE confirmed, the weekday editor opens
CommitDate ==
    /\ Confirmed("setDate")
    /\ rtcDate' = <<ed.a, ed.b, ed.c>>
    /\ ed' = OpenEd(rtcDow, 0, 0)
    /\ pc' = "setDow"
    /\ UNCHANGED <<clock, rtcDow, ticks, eeprom, settings, brightness, alarmDisabled,
                   timeObj, session, edits, entryBright, sounded, reached>>

\* time setup: SET WEEKDAY confirmed, back to the clockface
CommitDow ==
    /\ Confirmed("setDow")
    /\ rtcDow' = ed.a
    /\ timeObj' = clock
    /\ ed' = NoEd
    /\ pc' = "loop"
    /\ UNCHANGED <<clock, rtcDate, ticks, eeprom, settings, brightness, alarmDisabled,
                   session, edits, entryBright, sounded, reached>>

\* alarm setup: SET ALARM confirmed, the challenge editor opens
CommitAlarm ==
    /\ Confirmed("setAlarm")
    /\ alarmHrs' = ed.a
    /\ alarmMins' = ed.b
    /\ eeprom' = [eeprom EXCEPT ![0] = ed.a, ![1] = ed.b]
    /\ sounded' = IF <<ed.a, ed.b>> # AlarmTime THEN FALSE ELSE sounded
    /\ reached' = IF <<ed.a, ed.b>> # AlarmTime THEN FALSE ELSE reached
    /\ ed' = OpenEd(alarmChallenge, 0, 0)
    /\ pc' = "setChallenge"
    /\ UNCHANGED <<rtc, ticks, alarmChallenge, alarmSnoozeMins, alarmSnoozeSecs,
                   alarmState, brightness, alarmDisabled, timeObj, session, edits,
                   entryBright>>

\* variant of CommitChallenge that leaves the store as it was
CommitChallengeRamOnly ==
    /\ Confirmed("setChallenge")
    /\ alarmChallenge' = ed.a
    /\ ed' = OpenEd(alarmSnoozeMins, alarmSnoozeSecs, 0)
    /\ pc' = "setSnooze"
    /\ UNCHANGED <<rtc, ticks, eeprom, alarmHrs, alarmMins, alarmSnoozeMins,
                   alarmSnoozeSecs, alarmState, brightness, alarmDisabled, timeObj,
                   session, edits, entryBright, sounded, reached>>

\* alarm setup: SET CHALLENGE confirmed, the snooze editor opens
CommitChallenge ==
    /\ Confirmed("setChallenge")
    /\ alarmChallenge' = ed.a
    /\ eeprom' = [eeprom EXCEPT ![2] = ed.a]
    /\ ed' = OpenEd(alarmSnoozeMins, alarmSnoozeSecs, 0)
    /\ pc' = "setSnooze"
    /\ UNCHANGED <<rtc, ticks, alarmHrs, alarmMins, alarmSnoozeMins, alarmSnoozeSecs,
                   alarmState, brightness, alarmDisabled, timeObj, session, edits,
                   entryBright, sounded, reached>>

\* alarm setup: SET SNOOZE confirmed, the state editor opens
CommitSnooze ==
    /\ Confirmed("setSnooze")
    /\ alarmSnoozeMins' = ed.a
    /\ alarmSnoozeSecs' = ed.b
    /\ eeprom' = [eeprom EXCEPT ![3] = ed.a, ![4] = ed.b]
    /\ ed' = OpenEd(IF alarmState THEN 2 ELSE 1, 0, 0)
    /\ pc' = "setState"
    /\ UNCHANGED <<rtc, ticks, alarmHrs, alarmMins, alarmChallenge, alarmState,
                   brightness, alarmDisabled, timeObj, session, edits, entryBright,
                   sounded, reached>>

\* alarm setup: SET STATE confirmed, back to the clockface
CommitState ==
    /\ Confirmed("setState")
    /\ alarmState' = (ed.a = 2)
    /\ eeprom' = [eeprom EXCEPT ![5] = IF ed.a = 2 THEN 1 ELSE 0]
    /\ reached' = IF (ed.a = 2) # alarmState THEN FALSE ELSE reached
    /\ ed' = NoEd
    /\ pc' = "loop"
    /\ UNCHANGED <<rtc, ticks, alarmHrs, alarmMins, alarmChallenge, alarmSnoozeMins,
                   alarmSnoozeSecs, brightness, alarmDisabled, timeObj, session,
                   edits, entryBright, sounded>>

(* ------------------------------------------------------------------ *)
(* Specification                                                      *)
(* ------------------------------------------------------------------ *)

Next ==
    \/ Tick
    \/ Elapse
    \/ Setup
    \/ SecretWait
    \/ SecretCount
    \/ LoopIdle
    \/ LoopFire
    \/ AfterAlarm
    \/ BrightPoll
    \/ DebugPoll
    \/ ChallengePoll
    \/ FeedbackEnd
    \/ AnnounceEnd
    \/ SnoozePoll
    \/ SkippedEnd
    \/ AlertPoll
    \/ DismissedEnd
    \/ EditorPoll
    \/ CommitTime
    \/ CommitDate
    \/ CommitDow
    \/ CommitAlarm
    \/ CommitChallenge
    \/ CommitSnooze
    \/ CommitState

Spec == Init /\ [][Next]_vars

(* ------------------------------------------------------------------ *)
(* chMinsSecs: what a redraw paints on row 2                           *)
(* ------------------------------------------------------------------ *)

DigitChars == <<"0", "1", "2", "3", "4", "5", "6", "7", "8", "9">>

\* sprintf %02d of a value below 100
TwoDigits(n) == <<DigitChars[(n \div 10) + 1], DigitChars[(n % 10) + 1]>>

NoneText == <<" ", "N", "O", "N", "E", " ">>

\* the custom character 1, the blink cursor
CursorChar == "cursor"

\* variant of MinsSecsPaint that shows NONE whichever value is selected
MinsSecsPaintAnyField(blinkText, set, setMins, setSecs) ==
    IF blinkText /\ setMins = 0 /\ setSecs = 0
    THEN [col |-> 7,
          text |-> <<" ", CursorChar, CursorChar, CursorChar, CursorChar, " ">>]
    ELSE IF blinkText
    THEN [col |-> IF set THEN 7 ELSE 10, text |-> <<CursorChar, CursorChar>>]
    ELSE [col |-> 7,
          text |-> IF setMins = 0 /\ setSecs = 0
                   THEN NoneText
                   ELSE TwoDigits(setMins) \o <<"m">> \o TwoDigits(setSecs) \o <<"s">>]

\* one redraw of chMinsSecs: the column the cursor is set to and the
\* characters printed; set: minutes are selected
MinsSecsPaint(blinkText, set, setMins, setSecs) ==
    IF blinkText /\ ~set /\ setMins = 0 /\ setSecs = 0
    THEN [col |-> 7,
          text |-> <<" ", CursorChar, CursorChar, CursorChar, CursorChar, " ">>]
    ELSE IF blinkText
    THEN [col |-> IF set THEN 7 ELSE 10, text |-> <<CursorChar, CursorChar>>]
    ELSE [col |-> 7,
          text |-> IF ~set /\ setMins = 0 /\ setSecs = 0
                   THEN NoneText
                   ELSE TwoDigits(setMins) \o <<"m">> \o TwoDigits(setSecs) \o <<"s">>]

(* ------------------------------------------------------------------ *)
(* The editors on their own: an editor is open on values that Up and  *)
(* Down presses can have produced, and runs until it returns          *)
(* ------------------------------------------------------------------ *)

\* editor and locals the run starts in: every value of every field, the other
\* fields of the editor at one end of their ranges
EdStarts ==
    LET Years == {YearMin, YearMin + 1, 2022, YearMax - 1, YearMax}
        TimeVals == { <<a, 0>> : a \in 0..(HoursPerDay - 1) }
                    \cup { <<HoursPerDay - 1, b>> : b \in 0..(MinsPerHour - 1) }
        SnoozeVals == { <<a, 0>> : a \in 0..(MinsPerHour - 1) }
                      \cup { <<MinsPerHour - 1, b>> : b \in 0..(MinsPerHour - 1) }
        DateVals == { <<a, 2, 2022>> : a \in 1..DaysMod }
                    \cup { <<DaysMod, b, 2022>> : b \in 1..MonthsMod }
                    \cup { <<DaysMod, MonthsMod, c>> : c \in Years }
    IN  { [p |-> p, e |-> [a |-> v[1], b |-> v[2], c |-> 0, f |-> f]] :
              p \in {"setTime", "setAlarm"}, v \in TimeVals, f \in 0..1 }
        \cup { [p |-> "setSnooze", e |-> [a |-> v[1], b |-> v[2], c |-> 0, f |-> f]] :
              v \in SnoozeVals, f \in 0..1 }
        \cup { [p |-> "setDate", e |-> [a |-> v[1], b |-> v[2], c |-> v[3], f |-> f]] :
              v \in DateVals, f \in 0..2 }
        \cup { [p |-> "setDow", e |-> OpenEd(a, 0, 0)] : a \in 1..DowBound }
        \cup { [p |-> "setState", e |-> OpenEd(a, 0, 0)] : a \in 1..StateBound }
        \cup { [p |-> "setChallenge", e |-> OpenEd(a, 0, 0)] :
              a \in 0..(ChallengeMod - 1) }

\* an editor is open; the settings are those setup loaded from a store that
\* holds challenge 2 and snooze 2 s
EdInit ==
    /\ \E s \in EdStarts : pc = s.p /\ ed = s.e
    /\ clock \in InitClocks
    /\ rtcDate = InitCalendar.date
    /\ rtcDow = InitCalendar.dow
    /\ ticks = 0
    /\ ticked = FALSE
    /\ eeprom \in { e \in InitEeproms : e[2] = 2 /\ e[4] = 2 }
    /\ alarmHrs = LoadByte(eeprom[0], 0, 23, 0)
    /\ alarmMins = LoadByte(eeprom[1], 0, 59, 0)
    /\ alarmChallenge = LoadByte(eeprom[2], 0, 99, 10)
    /\ alarmSnoozeMins = LoadByte(eeprom[3], 0, 59, 0)
    /\ alarmSnoozeSecs = LoadByte(eeprom[4], 0, 59, 0)
    /\ alarmState = (eeprom[5] = 1)
    /\ brightness = LoadByte(eeprom[6], 0, 17, 0)
    /\ alarmDisabled = FALSE
    /\ timeObj = clock
    /\ points = 0 /\ num = 0
    /\ pressed = 0
    /\ lines = NoLines
    /\ snoozeElapsed = 0
    /\ deb = [last |-> 0, ok |-> TRUE]
    /\ edits = 0
    /\ entryBright = 0
    /\ sounded = FALSE
    /\ reached = FALSE
    /\ backlight \in LevelsFor(brightness)
    /\ smp = SmpStart
    /\ trail = NoTrail

EdNext ==
    \/ Elapse
    \/ EditorPoll
    \/ CommitTime
    \/ CommitDate
    \/ CommitDow
    \/ CommitAlarm
    \/ CommitChallenge
    \/ CommitSnooze
    \/ CommitState

EdSpec == EdInit /\ [][EdNext]_vars

(* ------------------------------------------------------------------ *)
(* setup on its own: power-on with any content of the store           *)
(* ------------------------------------------------------------------ *)

\* store contents the variations start from: the typical one and an erased
\* store
BootBases ==
    { [a \in 0..6 |-> CASE a = 0 -> 7
                        [] a = 2 -> 2
                        [] a = 4 -> 2
                        [] a = 5 -> 1
                        [] a = 6 -> 5
                        [] OTHER -> 0],
      [a \in 0..6 |-> ByteMod - 1] }

\* every byte value at every address
BootEeproms ==
    { [b EXCEPT ![a] = v] : b \in BootBases, a \in 0..6, v \in 0..(ByteMod - 1) }

BootInit ==
    /\ pc = "boot"
    /\ clock \in InitClocks
    /\ rtcDate = InitCalendar.date
    /\ rtcDow = InitCalendar.dow
    /\ ticks = 0
    /\ ticked = FALSE
    /\ eeprom \in BootEeproms
    /\ alarmHrs = 0 /\ alarmMins = 0 /\ alarmChallenge = 0
    /\ alarmSnoozeMins = 0 /\ alarmSnoozeSecs = 0
    /\ alarmState = FALSE
    /\ brightness = 0
    /\ alarmDisabled = FALSE
    /\ timeObj = <<0, 0>>
    /\ points = 0 /\ num = 0
    /\ pressed = 0
    /\ lines = NoLines
    /\ snoozeElapsed = 0
    /\ deb = [last |-> 0, ok |-> TRUE]
    /\ ed = NoEd
    /\ edits = 0
    /\ entryBright = 0
    /\ sounded = FALSE
    /\ reached = FALSE
    /\ backlight = 0
    /\ smp = SmpStart
    /\ trail = NoTrail

BootNext == Setup

BootSpec == BootInit /\ [][BootNext]_vars

(* ------------------------------------------------------------------ *)
(* getPressed and background followed in milliseconds: the caller      *)
(* polls getPressed or sits in background(d) while time passes and the *)
(* button lines change                                                 *)
(* ------------------------------------------------------------------ *)

\* milliseconds that pass between two steps
TimeSteps == {50, 1000}

\* the waits background is called with in the snooze countdown
BgDurations == {200, 800}

\* millis() - timer after dt more ms, followed up to cap
Aged(a, dt, cap) == IF a + dt >= cap THEN cap ELSE a + dt

\* the same for a history age, -1 while there is nothing to age
AgedIf(a, dt, cap) == IF a < 0 THEN a ELSE Aged(a, dt, cap)

\* everything the sampler does not touch
firmware == <<clock, rtcDate, rtcDow, ticks, ticked, eeprom, settings, alarmDisabled,
              timeObj, session, ed, edits, entryBright, sounded, reached, trail>>

\* the settings are those setup loads from the store
SettingsLoaded ==
    /\ alarmHrs = LoadByte(eeprom[0], 0, 23, 0)
    /\ alarmMins = LoadByte(eeprom[1], 0, 59, 0)
    /\ alarmChallenge = LoadByte(eeprom[2], 0, 99, 10)
    /\ alarmSnoozeMins = LoadByte(eeprom[3], 0, 59, 0)
    /\ alarmSnoozeSecs = LoadByte(eeprom[4], 0, 59, 0)
    /\ alarmState = (eeprom[5] = 1)

\* the firmware polls getPressed, in brightness one of levels, while the user
\* produces the line states keys and the sensor reads one of room
SamplerInit(keys, room, levels) ==
    /\ pc = "caller"
    /\ brightness \in levels
    /\ backlight \in (IF brightness = 0 THEN { BrightCurve(s) : s \in room }
                      ELSE IF brightness = AutoHalted THEN {FullLight}
                      ELSE {ManualLevel(brightness)})
    /\ smp = [SmpStart EXCEPT !.keys = keys, !.room = room]
    /\ lines = NoLines
    /\ deb = [last |-> 0, ok |-> TRUE]
    /\ pressed = 0
    /\ clock \in InitClocks
    /\ rtcDate = InitCalendar.date
    /\ rtcDow = InitCalendar.dow
    /\ ticks = 0
    /\ ticked = FALSE
    /\ eeprom \in { e \in InitEeproms : e[2] = 2 /\ e[4] = 2 }
    /\ SettingsLoaded
    /\ alarmDisabled = FALSE
    /\ timeObj = clock
    /\ points = 0 /\ num = 0
    /\ snoozeElapsed = 0
    /\ ed = NoEd
    /\ edits = 0
    /\ entryBright = 0
    /\ sounded = FALSE
    /\ reached = FALSE
    /\ trail = NoTrail

\* where soundAlarm sits in delay(): CORRECT!, INCORRECT!, ALARM DISABLED!
QuietPcs == {"correct", "incorrect", "announce"}

\* time passes: millis() moves on, every difference to a timer grows
Advance ==
    /\ \E dt \in TimeSteps :
          /\ smp' = [smp EXCEPT
                        !.pressAge = Aged(@, dt, DebounceMs),
                        !.brightAge = Aged(@, dt, WindowMs),
                        !.lineAge = [b \in Buttons |-> AgedIf(@[b], dt, DebounceMs)],
                        !.repAge = AgedIf(@, dt, DebounceMs),
                        !.idleAge = AgedIf(@, dt, DebounceMs),
                        !.bgAge = IF pc = "background"
                                  THEN Aged(@, dt, smp.bgDur) ELSE @]
          /\ deb' = [deb EXCEPT
                        !.ok = Aged(smp.pressAge, dt, DebounceMs) >= DebounceMs]
    /\ UNCHANGED <<pc, brightness, backlight, pressed, lines, firmware>>

\* the user presses or releases buttons: the lines go to state l
LineChange ==
    /\ \E l \in smp.keys \ {lines} :
          /\ lines' = l
          /\ smp' = [smp EXCEPT
                        !.lineAge = [b \in Buttons |->
                                        IF b \notin l THEN -1
                                        ELSE IF b \in lines THEN @[b] ELSE 0],
                        !.held = @ \cap l,
                        !.holding = @ /\ l # {},
                        !.acted = IF pc \in QuietPcs THEN @ \cup l ELSE @]
    /\ UNCHANGED <<pc, brightness, backlight, pressed, deb, firmware>>

\* one call of getPressed that reads the sensor as cur and the lines as they
\* are: the window, the backlight, the debounce latch and its timer
GetPressedCall(cur) ==
    LET lo == IF cur < smp.minSensor THEN cur ELSE smp.minSensor
        hi == IF cur > smp.maxSensor THEN cur ELSE smp.maxSensor
        due == smp.brightAge >= WindowMs
        r == GetPressed(lines, [last |-> deb.last,
                                ok |-> smp.pressAge >= DebounceMs])
        idle == lines = {} /\ smp.repAge >= DebounceMs /\ smp.idleAge < 0
    IN  /\ backlight' = IF due /\ brightness = 0
                        THEN BrightCurve(Midpoint(lo, hi)) ELSE backlight
        /\ deb' = Polled(r)
        /\ smp' = [smp EXCEPT
                      !.minSensor = IF due THEN SensorTop ELSE lo,
                      !.maxSensor = IF due THEN 0 ELSE hi,
                      !.brightAge = IF due THEN 0 ELSE @,
                      !.pressAge = IF r.last # deb.last THEN 0 ELSE @,
                      !.cur = cur,
                      !.ret = r.ret,
                      !.wrote = due /\ brightness = 0,
                      !.seen = IF due THEN {} ELSE @ \cup {cur},
                      !.held = IF r.ret # 0 THEN lines ELSE @,
                      !.holding = IF r.ret # 0 THEN TRUE ELSE @,
                      !.repAge = IF r.ret # 0 THEN 0 ELSE @,
                      !.again = IF r.ret # 0 THEN smp.repAge >= 0 ELSE @,
                      !.idleAge = IF r.ret # 0 THEN -1
                                  ELSE IF idle THEN 0 ELSE @]

\* the caller polls getPressed and takes what it returns
Poll ==
    /\ pc = "caller"
    /\ \E cur \in smp.room : GetPressedCall(cur)
    /\ pressed' = smp'.ret
    /\ UNCHANGED <<pc, brightness, lines, firmware>>

\* variant of BgWaits that gives up one time step early
BgWaitsShort(age, d) == age + 50 < d

\* the loop condition of background: millis() - sleepTimer < sleepDuration
BgWaits(age, d) == age < d

\* the caller calls background(d): sleepTimer = millis()
BgCall ==
    /\ pc = "caller"
    /\ \E d \in BgDurations : smp' = [smp EXCEPT !.bgAge = 0, !.bgDur = d]
    /\ pc' = "background"
    /\ UNCHANGED <<brightness, backlight, pressed, lines, deb, firmware>>

\* one iteration of background: getPressed is called, what it returns is
\* dropped
BgIter ==
    /\ pc = "background"
    /\ BgWaits(smp.bgAge, smp.bgDur)
    /\ \E cur \in smp.room : GetPressedCall(cur)
    /\ UNCHANGED <<pc, brightness, pressed, lines, firmware>>

\* the loop condition of background fails: background returns
BgReturn ==
    /\ pc = "background"
    /\ ~BgWaits(smp.bgAge, smp.bgDur)
    /\ pc' = "caller"
    /\ UNCHANGED <<brightness, backlight, pressed, lines, deb, smp, firmware>>

\* the line states the user produces while the debounce is followed
PressKeys == {{}, {1}, {3}, {4}, {1, 3}, {3, 4}}

\* debounce: one or two buttons at a time, a dim room
PressInit == SamplerInit(PressKeys, SensorSamples, {0, 5})

PressNext == Advance \/ LineChange \/ Poll

PressSpec == PressInit /\ [][PressNext]_vars

\* the brightness window: no button touched, every room, automatic, halted
\* and manual brightness
WindowInit == SamplerInit({}, RoomSamples, {0, 1, 5, 17, AutoHalted})

WindowNext == Advance \/ Poll

WindowSpec == WindowInit /\ [][WindowNext]_vars

\* background: the user holds nothing or all four buttons, automatic
\* brightness
BgInit == SamplerInit({{}, {1, 2, 3, 4}}, SensorSamples, {0})

BgNext == Advance \/ LineChange \/ BgCall \/ BgIter \/ BgReturn

\* time passes and the firmware runs
BgSpec ==
    /\ BgInit /\ [][BgNext]_vars
    /\ WF_vars(Advance) /\ WF_vars(BgIter) /\ WF_vars(BgReturn)

(* ------------------------------------------------------------------ *)
(* The brightness setting stepped with Up and Down from every level    *)
(* ------------------------------------------------------------------ *)

\* Down presses followed from one start
MaxDowns == 2

\* the brightness screen is open at one of the 18 levels
LevelInit ==
    /\ pc = "brightUI"
    /\ brightness \in 0..(BrightLevels - 1)
    /\ trail = [start |-> brightness, ups |-> 0, downs |-> 0]
    /\ backlight \in LevelsFor(brightness)
    /\ eeprom \in { e \in InitEeproms : e[2] = 2 /\ e[4] = 2 }
    /\ smp = SmpStart
    /\ lines = NoLines
    /\ deb = [last |-> 3, ok |-> FALSE]
    /\ pressed = 0
    /\ clock \in InitClocks
    /\ rtcDate = InitCalendar.date
    /\ rtcDow = InitCalendar.dow
    /\ ticks = 0
    /\ ticked = FALSE
    /\ SettingsLoaded
    /\ alarmDisabled = FALSE
    /\ timeObj = clock
    /\ points = 0 /\ num = 0
    /\ snoozeElapsed = 0
    /\ ed = NoEd
    /\ edits = 0
    /\ entryBright = 0
    /\ sounded = FALSE
    /\ reached = FALSE

\* Up is read while the brightness screen is open
StepUp ==
    /\ pc = "brightUI"
    /\ trail.ups < BrightLevels
    /\ brightness' = BrightUp(brightness)
    /\ eeprom' = StoreBrightness(eeprom, BrightUp(brightness))
    /\ backlight' \in LevelsFor(BrightUp(brightness))
    /\ trail' = [trail EXCEPT !.ups = @ + 1]
    /\ UNCHANGED <<pc, rtc, ticks, ticked, settings, alarmDisabled, timeObj, session,
                   ed, edits, entryBright, sounded, reached, pressed, lines, deb, smp>>

\* Down is read while the brightness screen is open
StepDown ==
    /\ pc = "brightUI"
    /\ trail.downs < MaxDowns
    /\ brightness' = BrightDown(brightness)
    /\ eeprom' = StoreBrightness(eeprom, BrightDown(brightness))
    /\ backlight' \in LevelsFor(BrightDown(brightness))
    /\ trail' = [trail EXCEPT !.downs = @ + 1]
    /\ UNCHANGED <<pc, rtc, ticks, ticked, settings, alarmDisabled, timeObj, session,
                   ed, edits, entryBright, sounded, reached, pressed, lines, deb, smp>>

LevelNext == StepUp \/ StepDown

LevelSpec == LevelInit /\ [][LevelNext]_vars

(* ------------------------------------------------------------------ *)
(* brightCurve over every reading of the sensor                        *)
(* ------------------------------------------------------------------ *)

\* what analogRead returns: 10 bits
SensorRange == 0..1023

\* what a call of brightCurve can return: where the quotient is a whole
\* number the float division may fall just below it, and the conversion to
\* byte then gives one less
CurveOutcomes(sensor) ==
    IF sensor > 110 /\ sensor < 729 /\ 20000 % (800 - sensor) = 0
    THEN {BrightCurve(sensor), BrightCurve(sensor) - 1}
    ELSE {BrightCurve(sensor)}

\* the brightness screen shows AUTO in a dim room
CurveInit ==
    /\ pc = "brightUI"
    /\ brightness = 0
    /\ \E s \in SensorSamples :
          /\ smp = [SmpStart EXCEPT !.cur = s]
          /\ backlight \in CurveOutcomes(s)
    /\ trail = NoTrail
    /\ eeprom \in { e \in InitEeproms : e[2] = 2 /\ e[4] = 0 }
    /\ lines = NoLines
    /\ deb = [last |-> 3, ok |-> FALSE]
    /\ pressed = 0
    /\ clock \in InitClocks
    /\ rtcDate = InitCalendar.date
    /\ rtcDow = InitCalendar.dow
    /\ ticks = 0
    /\ ticked = FALSE
    /\ SettingsLoaded
    /\ alarmDisabled = FALSE
    /\ timeObj = clock
    /\ points = 0 /\ num = 0
    /\ snoozeElapsed = 0
    /\ ed = NoEd
    /\ edits = 0
    /\ entryBright = 0
    /\ sounded = FALSE
    /\ reached = FALSE

\* updateBrightness in automatic brightness: the sensor is read and its curve
\* is written to the backlight
AutoWrite ==
    /\ pc = "brightUI"
    /\ brightness = 0
    /\ \E s \in SensorRange :
          /\ smp' = [smp EXCEPT !.cur = s]
          /\ backlight' \in CurveOutcomes(s)
    /\ UNCHANGED <<pc, brightness, pressed, lines, deb, firmware>>

CurveNext == AutoWrite

CurveSpec == CurveInit /\ [][CurveNext]_vars

(* ------------------------------------------------------------------ *)
(* The challenge with its feedback and announcement windows, the       *)
(* button lines followed while soundAlarm sits in delay()              *)
(* ------------------------------------------------------------------ *)

\* the line states the user produces during a session
QuietKeys == {{}, {1}, {1, 2, 3, 4}}

\* variant of DelayTakes in which the wait reads the buttons
DelayTakesPress(acted) == CurPressed(acted)

\* the button a delay() takes up, acted being the lines that were active at
\* some time during it: delay() reads nothing
DelayTakes(acted) == 0

\* the sampler's record after a delay() of 400 ms or more: every age is at
\* its cap
AfterWait(s) ==
    [s EXCEPT !.pressAge = DebounceMs,
              !.brightAge = WindowMs,
              !.lineAge = [b \in Buttons |-> AgedIf(@[b], DebounceMs, DebounceMs)],
              !.repAge = AgedIf(@, DebounceMs, DebounceMs),
              !.idleAge = AgedIf(@, DebounceMs, DebounceMs)]

\* a challenge of 2 has just been entered: the backlight is forced, the
\* first target is drawn
QuietInit ==
    /\ pc = "prompt"
    /\ clock \in InitClocks
    /\ rtcDate = InitCalendar.date
    /\ rtcDow = InitCalendar.dow
    /\ ticks = 0
    /\ ticked = FALSE
    /\ eeprom \in { e \in InitEeproms : e[2] = 2 }
    /\ SettingsLoaded
    /\ entryBright = LoadByte(eeprom[6], 0, 17, 0)
    /\ brightness = HaltAuto(entryBright)
    /\ backlight = FullLight
    /\ alarmDisabled = FALSE
    /\ timeObj = clock
    /\ points = 0
    /\ num \in 1..4
    /\ snoozeElapsed = 0
    /\ ed = NoEd
    /\ edits = 0
    /\ sounded = TRUE
    /\ reached = TRUE
    /\ pressed = 0
    /\ lines = NoLines
    /\ deb = [last |-> 0, ok |-> TRUE]
    /\ smp = [SmpStart EXCEPT !.keys = QuietKeys]
    /\ trail = NoTrail

\* one iteration of the question loop: getPressed is polled and its value
\* taken as the answer
QuietAnswer ==
    /\ pc = "prompt"
    /\ \E cur \in smp.room : GetPressedCall(cur)
    /\ pressed' = smp'.ret
    /\ LET a == Answer(smp'.ret, num, alarmChallenge) IN
          CASE a = "correct" ->
                    /\ points < MaxPoints
                    /\ points' = IncPoints(points)
                    /\ pc' = "correct"
            [] a = "incorrect" ->
                    /\ points' = DecPoints(points)
                    /\ pc' = "incorrect"
            [] OTHER -> UNCHANGED <<points, pc>>
    /\ UNCHANGED <<rtc, ticks, ticked, eeprom, settings, brightness, alarmDisabled,
                   timeObj, num, snoozeElapsed, ed, edits, entryBright, sounded,
                   reached, lines, trail>>

\* the two delay(500) of the feedback are over, consumePress reads the lines
\* as they are now, and the question loop goes on or ends
QuietFeedbackEnd ==
    /\ pc \in {"correct", "incorrect"}
    /\ deb' = ConsumePress(lines, AfterDelay(deb))
    /\ smp' = [AfterWait(smp) EXCEPT
                  !.pressAge = IF deb'.last # deb.last THEN 0 ELSE DebounceMs,
                  !.brightAge = 0,
                  !.minSensor = SensorTop,
                  !.maxSensor = 0,
                  !.wrote = FALSE,
                  !.ret = 0,
                  !.quiet = smp.acted,
                  !.acted = {}]
    /\ pressed' = 0
    /\ IF DelayTakes(smp.acted) # 0
       THEN /\ pc' = "incorrect"
            /\ points' = DecPoints(points)
            /\ UNCHANGED num
       ELSE /\ UNCHANGED points
            /\ IF pc = "correct" /\ ChallengeDone(points, alarmChallenge)
               THEN pc' = "announce" /\ UNCHANGED num
               ELSE pc' = "prompt" /\ num' \in NextTarget(pc = "correct", num)
    /\ UNCHANGED <<rtc, ticks, ticked, eeprom, settings, brightness, backlight,
                   alarmDisabled, timeObj, snoozeElapsed, ed, edits, entryBright,
                   sounded, reached, lines, trail>>

\* the six delay(400) of ALARM DISABLED! are over: the brightness is
\* restored, soundAlarm returns or the countdown starts
QuietAnnounceEnd ==
    /\ pc = "announce"
    /\ deb' = AfterDelay(deb)
    /\ smp' = [AfterWait(smp) EXCEPT !.quiet = smp.acted, !.acted = {}]
    /\ brightness' = ResumeAuto(brightness)
    /\ backlight' \in LevelsFor(ResumeAuto(brightness))
    /\ pressed' = 0
    /\ snoozeElapsed' = 0
    /\ pc' = IF DelayTakes(smp.acted) # 0 THEN "skipped"
             ELSE IF SnoozeOff(alarmSnoozeMins, alarmSnoozeSecs) THEN "afterAlarm"
             ELSE "snooze"
    /\ UNCHANGED <<rtc, ticks, ticked, eeprom, settings, alarmDisabled, timeObj,
                   points, num, ed, edits, entryBright, sounded, reached, lines,
                   trail>>

\* Advance and LineChange go on while the session is in the challenge
QuietNext ==
    \/ (pc \in {"prompt"} \cup QuietPcs /\ Advance)
    \/ (pc \in {"prompt"} \cup QuietPcs /\ LineChange)
    \/ QuietAnswer
    \/ QuietFeedbackEnd
    \/ QuietAnnounceEnd

QuietSpec == QuietInit /\ [][QuietNext]_vars

(* ------------------------------------------------------------------ *)
(* chTime with its blink: the two revisions of setInterface.cpp        *)
(* ------------------------------------------------------------------ *)

\* the redraw interval of the editors
BlinkMs == 250

\* FIRMWARE 3 (part_001) and PROTOTYPE 2 (part_002)
Revisions == {"firmware3", "prototype2"}

\* everything but pc, the editor locals and the value read
besideEditor == <<rtc, ticks, ticked, eeprom, settings, brightness, alarmDisabled,
                  timeObj, session, edits, entryBright, sounded, reached, lines,
                  deb, backlight, smp, trail>>

\* the device sits at rest with the settings setup loaded
AtRest ==
    /\ clock \in InitClocks
    /\ rtcDate = InitCalendar.date
    /\ rtcDow = InitCalendar.dow
    /\ ticks = 0
    /\ ticked = FALSE
    /\ eeprom \in { e \in InitEeproms : e[2] = 2 /\ e[4] = 2 }
    /\ SettingsLoaded
    /\ brightness = LoadByte(eeprom[6], 0, 17, 0)
    /\ backlight \in LevelsFor(brightness)
    /\ alarmDisabled = FALSE
    /\ timeObj = clock
    /\ points = 0 /\ num = 0
    /\ snoozeElapsed = 0
    /\ edits = 0
    /\ entryBright = 0
    /\ sounded = FALSE
    /\ reached = FALSE
    /\ pressed = 0
    /\ lines = NoLines
    /\ deb = [last |-> 0, ok |-> TRUE]
    /\ smp = SmpStart
    /\ trail = NoTrail

\* blinkText and millis() - prev after Up, Down or a Confirm that selects the
\* next value: FIRMWARE 3 sets blinkText = false and prev = 0, which makes the
\* redraw due; PROTOTYPE 2 touches neither
BlinkAfterInput(rev, e) ==
    IF rev = "firmware3"
    THEN [e EXCEPT !.blinkText = FALSE, !.age = BlinkMs, !.await = TRUE]
    ELSE [e EXCEPT !.await = TRUE]

\* chTime has been called on the time 23:58: prev = 0, blinkText = false,
\* the hours selected, nothing painted yet
BlinkInit ==
    /\ pc = "setTime"
    /\ \E rev \in Revisions :
          ed = [a |-> 23, b |-> 58, c |-> 0, f |-> 0, rev |-> rev,
                blinkText |-> FALSE, age |-> BlinkMs, shown |-> "none",
                await |-> FALSE]
    /\ AtRest

\* time passes inside chTime
BlinkElapse ==
    /\ pc = "setTime"
    /\ \E dt \in TimeSteps : ed' = [ed EXCEPT !.age = Aged(@, dt, BlinkMs)]
    /\ UNCHANGED <<pc, pressed, besideEditor>>

\* the redraw of an iteration: due 250 ms after the last one; the selected
\* value is painted as the cursor blocks or as text, the flag flips
BlinkRender ==
    /\ pc = "setTime"
    /\ ed.age >= BlinkMs
    /\ ed' = [ed EXCEPT !.shown = IF ed.blinkText THEN "block" ELSE "text",
                        !.blinkText = ~@,
                        !.age = 0,
                        !.await = FALSE]
    /\ UNCHANGED <<pc, pressed, besideEditor>>

\* getPressed returns Up or Down
BlinkStep ==
    /\ pc = "setTime"
    /\ \E b \in {3, 4} :
          /\ pressed' = b
          /\ ed' = BlinkAfterInput(ed.rev, IF b = 3 THEN EdUp(pc, ed)
                                           ELSE EdDown(pc, ed))
    /\ UNCHANGED <<pc, besideEditor>>

\* getPressed returns Confirm on the hours: the minutes are selected
BlinkAdvance ==
    /\ pc = "setTime"
    /\ Returns(pc, ed.f, 1) = "none"
    /\ pressed' = 1
    /\ ed' = BlinkAfterInput(ed.rev, [ed EXCEPT !.f = @ + 1])
    /\ UNCHANGED <<pc, besideEditor>>

\* getPressed returns Cancel, or Confirm on the minutes: chTime returns
BlinkLeave ==
    /\ pc = "setTime"
    /\ \E b \in {1, 2} :
          /\ Returns(pc, ed.f, b) # "none"
          /\ pressed' = b
    /\ pc' = "loop"
    /\ ed' = NoEd
    /\ UNCHANGED besideEditor

BlinkNext ==
    \/ BlinkElapse
    \/ BlinkRender
    \/ BlinkStep
    \/ BlinkAdvance
    \/ BlinkLeave

BlinkSpec == BlinkInit /\ [][BlinkNext]_vars

(* ------------------------------------------------------------------ *)
(* The snooze countdown followed in milliseconds: remaining time and   *)
(* the progress bar of one iteration                                   *)
(* ------------------------------------------------------------------ *)

\* cells of the progress bar
BarCells == 18

\* snooze settings <<minutes, seconds>> the countdown is followed for
SnoozeSettings == {<<0, 2>>, <<0, 18>>, <<32, 58>>, <<59, 59>>}

\* milliseconds that pass between two evaluations of the loop condition:
\* eighths of a second and half seconds in a short countdown, an eighteenth
\* of the period (rounded down, or one more) in a long one
BarSteps(total) ==
    IF total <= 2000 THEN {125, 500}
    ELSE IF total <= 18000 THEN {500, 1000}
    ELSE {total \div BarCells, (total \div BarCells) + 1}

\* the value of an int of 16 bits that holds x
Int16(x) == ((x + 32768) % 65536) - 32768

\* snoozeMillis = ((alarmSnoozeMins * 60) + alarmSnoozeSecs) * 1000UL: the sum
\* is an int of 16 bits, the product an unsigned long (as a whole number; it
\* is below 2^31 for every sum from 0 up)
SnoozeMillis(m, s) == Int16((m * 60) + s) * 1000

\* r doubled until it reaches t; s counts the doublings
RECURSIVE SingleLift(_, _, _)
SingleLift(r, t, s) ==
    IF r >= t THEN [r |-> r, s |-> s] ELSE SingleLift(2 * r, t, s + 1)

\* n further bits of the quotient of r by t, appended to m
RECURSIVE SingleBits(_, _, _, _)
SingleBits(r, t, m, n) ==
    IF n = 0 THEN [m |-> m, r |-> r]
    ELSE IF 2 * r >= t THEN SingleBits((2 * r) - t, t, (2 * m) + 1, n - 1)
                       ELSE SingleBits(2 * r, t, 2 * m, n - 1)

\* 2 to the power n
RECURSIVE Pow2(_)
Pow2(n) == IF n = 0 THEN 1 ELSE 2 * Pow2(n - 1)

\* q with its low y bits rounded off, to nearest and to even on a tie
RoundOff(q, y) ==
    LET m == q \div Pow2(y)
        r == q % Pow2(y)
    IN  IF (2 * r > Pow2(y)) \/ (2 * r = Pow2(y) /\ m % 2 = 1) THEN m + 1 ELSE m

\* variant of Progress that rounds the product to the nearest whole number
ProgressRounded(elapsed, total) == ((BarCells * elapsed) + (total \div 2)) \div total

\* byte progress = ((float) elapsed / snoozeMillis) * 18, in single precision
\* (24-bit significands, each operation rounded to nearest): both operands
\* are below 2^24 and convert exactly; the quotient is m / 2^(s + 23) with m
\* the rounded 24-bit significand, the product is p * 2^y / 2^(s + 23) with
\* p the rounded significand of 18 * m, and the byte is its whole part
Progress(elapsed, total) ==
    IF elapsed = 0 THEN 0
    ELSE LET l  == SingleLift(elapsed, total, 0)
             b  == SingleBits(l.r - total, total, 1, 23)
             m  == IF (2 * b.r > total) \/ (2 * b.r = total /\ b.m % 2 = 1)
                   THEN b.m + 1 ELSE b.m
             y  == IF BarCells * m < Pow2(28) THEN 4 ELSE 5
             p  == RoundOff(BarCells * m, y)
             sh == (l.s + 23) - y
         IN  IF sh >= 26 THEN 0 ELSE p \div Pow2(sh)

\* (elapsed - ((progress * snoozeMillis) / 18)) % 1000 >= 500, the
\* subtraction being unsigned in 32 bits (2^32 leaves 296 modulo 1000)
HalfStep(elapsed, progress, total) ==
    LET d == elapsed - ((progress * total) \div BarCells)
    IN  (IF d >= 0 THEN d % 1000 ELSE (296 + (d % 1000)) % 1000) >= 500

\* memset(bar, c, n)
Fill(c, n) == [i \in 1..n |-> c]

\* the 18 characters of bar[]: blocks, then blanks
Bar(elapsed, progress, total) ==
    IF HalfStep(elapsed, progress, total)
    THEN Fill("#", progress + 1) \o Fill(" ", (BarCells - 1) - progress)
    ELSE Fill("#", progress) \o Fill(" ", BarCells - progress)

\* the locals of one iteration of the countdown with elapsed = e
BarLocals(e, total) ==
    LET progress == Progress(e, total) % ByteMod
    IN  [elapsed |-> e, snoozeMillis |-> total,
         remainingMins |-> ((total - e) \div 60000) % ByteMod,
         remainingSecs |-> (((total - e) % 60000) \div 1000) % ByteMod,
         progress |-> progress,
         bar |-> Bar(e, progress, total)]

\* soundAlarm is running in automatic brightness, with no challenge set and
\* the snooze period one of snoozes; the latch is set
InSession(snoozes) ==
    /\ clock \in InitClocks
    /\ rtcDate = InitCalendar.date
    /\ rtcDow = InitCalendar.dow
    /\ ticks = 0
    /\ ticked = FALSE
    /\ eeprom \in { [e EXCEPT ![3] = k[1], ![4] = k[2]] :
                      e \in { i \in InitEeproms : i[2] = 0 /\ i[6] = 0 },
                      k \in snoozes }
    /\ SettingsLoaded
    /\ alarmDisabled = TRUE
    /\ timeObj = clock
    /\ points = 0 /\ num = 0
    /\ snoozeElapsed = 0
    /\ edits = 0
    /\ entryBright = 0
    /\ sounded = TRUE
    /\ reached = TRUE
    /\ pressed = 0
    /\ lines = NoLines
    /\ deb = [last |-> 0, ok |-> TRUE]
    /\ smp = SmpStart
    /\ trail = NoTrail

\* ALARM DISABLED! has been shown with a snooze period set: snoozeTimer is
\* taken and the countdown is about to evaluate its loop condition
BarInit ==
    /\ pc = "snooze"
    /\ InSession(SnoozeSettings)
    /\ brightness = 0
    /\ backlight \in LevelsFor(brightness)
    /\ ed = [elapsed |-> 0, snoozeMillis |-> SnoozeMillis(alarmSnoozeMins, alarmSnoozeSecs),
             remainingMins |-> 0, remainingSecs |-> 0, progress |-> 0,
             bar |-> << >>]

\* one pass of the countdown's body: the loop condition held, the remaining
\* time and the bar are computed and printed, the chord is looked for
BarIter ==
    /\ pc = "snooze"
    /\ \E dt \in {0} \cup BarSteps(ed.snoozeMillis) :
          /\ ed.elapsed + dt < ed.snoozeMillis
          /\ ed' = BarLocals(ed.elapsed + dt, ed.snoozeMillis)
    /\ \E r \in Polls(deb), l \in ChordSamples :
          /\ lines' = l
          /\ IF AllHeld(l)
             THEN /\ \E d \in Consumed(Polled(r)) : deb' = d
                  /\ pc' = "skipped"
             ELSE /\ deb' = Polled(r)
                  /\ pc' = "snooze"
    /\ pressed' = 0
    /\ Sampled
    /\ Stepped
    /\ UNCHANGED <<rtc, ticks, eeprom, settings, brightness, alarmDisabled, timeObj,
                   session, edits, entryBright, sounded, reached>>

\* the loop condition fails: the snooze alert starts
BarExpire ==
    /\ pc = "snooze"
    /\ \E dt \in BarSteps(ed.snoozeMillis) :
          /\ ed.elapsed + dt >= ed.snoozeMillis
          /\ ed' = [ed EXCEPT !.elapsed = ed.snoozeMillis]
    /\ lines' = NoLines
    /\ pressed' = 0
    /\ brightness' = HaltAuto(brightness)
    /\ backlight' = FullLight
    /\ \E d \in Consumed(deb) : deb' = d
    /\ pc' = "alert"
    /\ Stepped
    /\ UNCHANGED <<rtc, ticks, eeprom, settings, alarmDisabled, timeObj, session,
                   edits, entryBright, sounded, reached>>

BarNext == BarIter \/ BarExpire

BarSpec == BarInit /\ [][BarNext]_vars

(* ------------------------------------------------------------------ *)
(* BufferedLCD: the character buffer beside the hardware display, under *)
(* any sequence of clear, setCursor and print                           *)
(* ------------------------------------------------------------------ *)

\* cells of the display
LcdCells == LcdCols * LcdRows

\* characters printed: a blank and a letter
LcdChars == {" ", "x"}

\* the strings handed to print: every string of at most MaxPrint characters
PrintStrings == UNION { [1..n -> LcdChars] : n \in 0..MaxPrint }

\* BufferedLCD(addr, cols, rows): the buffer blank, cursor 0; the hardware
\* display blank with its own cursor at the first cell; nothing called yet
LcdStart ==
    [buffer |-> [i \in 0..(LcdCells - 1) |-> " "], cursor |-> 0,
     glass |-> [i \in 0..(LcdCells - 1) |-> " "], hwCursor |-> 0,
     op |-> "new", args |-> << >>, sent |-> << >>, touched |-> {}]

\* LiquidCrystal_I2C::print(string): each character is written at the
\* hardware cursor, which then moves on one cell (past the last cell it is
\* taken back to the first)
HwPrint(glass, hwCursor, s) ==
    [i \in 0..(LcdCells - 1) |->
        LET at == { k \in 1..Len(s) : (hwCursor + (k - 1)) % LcdCells = i }
        IN  IF at = {} THEN glass[i]
            ELSE s[CHOOSE k \in at : \A j \in at : j <= k]]

\* variant of Fits that only asks for the cursor to be on the display
FitsFromCursor(cursor, length) == cursor < LcdCells

\* cursor + length <= maxX * maxY
Fits(cursor, length) == cursor + length <= LcdCols * LcdRows

\* memcmp(buffer + cursor, string, length) is not 0
Differs(buffer, cursor, s) ==
    \E k \in 1..Len(s) :
        (cursor + (k - 1)) \notin DOMAIN buffer \/ buffer[cursor + (k - 1)] # s[k]

\* the indices memcmp and memcpy go over
Span(cursor, length) == { cursor + (k - 1) : k \in 1..length }

\* memcpy(buffer + cursor, string, length)
Copied(buffer, cursor, s) ==
    [i \in DOMAIN buffer |->
        IF i \in Span(cursor, Len(s)) THEN s[(i - cursor) + 1] ELSE buffer[i]]

\* the BufferedLCD object is constructed; the firmware is about to use it
LcdInit ==
    /\ pc = "lcd"
    /\ ed = LcdStart
    /\ AtRest

\* clear()
LcdClear ==
    /\ pc = "lcd"
    /\ ed' = [ed EXCEPT !.glass = [i \in 0..(LcdCells - 1) |-> " "],
                        !.hwCursor = 0,
                        !.buffer = [i \in 0..((LcdCols * LcdRows) - 1) |-> " "],
                        !.op = "clear", !.args = << >>, !.sent = << >>,
                        !.touched = 0..((LcdCols * LcdRows) - 1)]
    /\ UNCHANGED <<pc, pressed, besideEditor>>

\* setCursor(x, y), with x and y on the display or one past it
LcdSetCursor ==
    /\ pc = "lcd"
    /\ \E x \in 0..LcdCols, y \in 0..LcdRows :
          ed' = IF x < LcdCols /\ y < LcdRows
                THEN [ed EXCEPT !.hwCursor = (y * LcdCols) + x,
                                !.cursor = (y * LcdCols) + x,
                                !.op = "setCursor", !.args = <<x, y>>,
                                !.sent = << >>, !.touched = {}]
                ELSE [ed EXCEPT !.op = "setCursor", !.args = <<x, y>>,
                                !.sent = << >>, !.touched = {}]
    /\ UNCHANGED <<pc, pressed, besideEditor>>

\* print(string), either overload
LcdPrint ==
    /\ pc = "lcd"
    /\ \E s \in PrintStrings :
          ed' = IF Fits(ed.cursor, Len(s)) /\ Differs(ed.buffer, ed.cursor, s)
                THEN [ed EXCEPT !.glass = HwPrint(ed.glass, ed.hwCursor, s),
                                !.hwCursor = (ed.hwCursor + Len(s)) % LcdCells,
                                !.buffer = Copied(ed.buffer, ed.cursor, s),
                                !.op = "print", !.args = << >>, !.sent = s,
                                !.touched = Span(ed.cursor, Len(s))]
                ELSE [ed EXCEPT !.op = "print", !.args = << >>,
                                !.sent = << >>,
                                !.touched = IF Fits(ed.cursor, Len(s))
                                            THEN Span(ed.cursor, Len(s))
                                            ELSE {}]
    /\ UNCHANGED <<pc, pressed, besideEditor>>

LcdNext == LcdClear \/ LcdSetCursor \/ LcdPrint

LcdSpec == LcdInit /\ [][LcdNext]_vars

(* ------------------------------------------------------------------ *)
(* soundAlarm from ALARM DISABLED! to its return, with the buzzer and  *)
(* the two LEDs                                                        *)
(* ------------------------------------------------------------------ *)

\* the pulse cycle of the countdown's blue flash and of the snooze alert
PulseMs == 5000

\* the blue LED is lit from here to the end of a cycle of the countdown
BlueFromMs == 4800

\* the alert's buzzer and red LED are on up to here in a cycle
AlertOnMs == 200

\* passes of the three beep loops
BeepPasses == 6

\* snooze settings <<minutes, seconds>> the pins are followed for: none, a
\* period that ends inside the blue flash, one that ends after it
PinSettings == {<<0, 0>>, <<0, 5>>, <<0, 6>>}

\* milliseconds between two evaluations of a loop condition
PinSteps == {100, 1000}

\* what millis() can be, within the pulse cycle, when the alert loop starts
AlertStarts == {0, 100, 200, 4900}

\* variant of Beep that starts with the buzzer off
BeepOffFirst(p, i) ==
    [p EXCEPT !.buzzer = IF i % 2 = 0 THEN "HIGH" ELSE "LOW",
              !.blueLED = IF i % 2 = 0 THEN "HIGH" ELSE "LOW"]

\* digitalWrite(buzzer, i % 2 == 0 ? LOW : HIGH);
\* digitalWrite(blueLED, i % 2 == 0 ? HIGH : LOW)
Beep(p, i) ==
    [p EXCEPT !.buzzer = IF i % 2 = 0 THEN "LOW" ELSE "HIGH",
              !.blueLED = IF i % 2 = 0 THEN "HIGH" ELSE "LOW"]

\* the countdown's blue flash at elapsed e
BlueFlash(p, e) ==
    IF e % PulseMs >= BlueFromMs /\ p.flash
    THEN [p EXCEPT !.blueLED = "HIGH", !.flash = FALSE]
    ELSE IF e % PulseMs < BlueFromMs /\ ~p.flash
         THEN [p EXCEPT !.blueLED = "LOW", !.flash = TRUE]
         ELSE p

\* the alert's pulse at elapsed e
AlertPulse(p, e) ==
    IF e % PulseMs < AlertOnMs /\ p.flash
    THEN [p EXCEPT !.buzzer = "LOW", !.redLED = "HIGH", !.flash = FALSE]
    ELSE IF e % PulseMs >= AlertOnMs /\ ~p.flash
         THEN [p EXCEPT !.buzzer = "HIGH", !.redLED = "LOW", !.flash = TRUE]
         ELSE p

\* the last answer was correct and its feedback is over: no tone, the buzzer
\* pin high (the buzzer is active low), both LEDs off; ALARM DISABLED! is
\* printed, the LEDs are written low and the first beep loop is about to run
PinInit ==
    /\ pc = "announce"
    /\ ed = [i |-> 0, elapsed |-> 0, flash |-> TRUE, tone |-> FALSE,
             buzzer |-> "HIGH", redLED |-> "LOW", blueLED |-> "LOW",
             via |-> "none", cut |-> FALSE]
    /\ InSession(PinSettings)
    /\ brightness = AutoHalted
    /\ backlight = FullLight

\* one pass of a beep loop: delay(400) or background(200), then the writes
PinBeep ==
    /\ pc \in {"announce", "skipped", "dismissed"}
    /\ ed.i < BeepPasses
    /\ ed' = [Beep(ed, ed.i) EXCEPT !.i = ed.i + 1]
    /\ IF pc = "skipped"
       THEN (\E d \in DebStates : deb' = d) /\ Sampled
       ELSE deb' = AfterDelay(deb) /\ UNCHANGED backlight
    /\ UNCHANGED <<pc, pressed, lines, brightness>>
    /\ Stepped
    /\ UNCHANGED <<rtc, ticks, eeprom, settings, alarmDisabled, timeObj, session,
                   edits, entryBright, sounded, reached>>

\* the beep loop of ALARM DISABLED! is over: brightness is restored, then
\* soundAlarm returns or the countdown starts with flash = true
PinAnnounceEnd ==
    /\ pc = "announce"
    /\ ed.i = BeepPasses
    /\ brightness' = ResumeAuto(brightness)
    /\ backlight' \in LevelsFor(ResumeAuto(brightness))
    /\ IF SnoozeOff(alarmSnoozeMins, alarmSnoozeSecs)
       THEN pc' = "afterAlarm" /\ ed' = [ed EXCEPT !.via = "no snooze"]
       ELSE pc' = "snooze" /\ ed' = [ed EXCEPT !.elapsed = 0, !.flash = TRUE]
    /\ UNCHANGED <<deb, pressed, lines>>
    /\ Stepped
    /\ UNCHANGED <<rtc, ticks, eeprom, settings, alarmDisabled, timeObj, session,
                   edits, entryBright, sounded, reached>>

\* one evaluation of the countdown's loop condition: the body with its blue
\* flash and chord check, or the exit to the alert, where the blue LED is
\* written low, flash is set and elapsed starts as millis()
PinSnoozeIter ==
    /\ pc = "snooze"
    /\ \E dt \in PinSteps :
          IF ed.elapsed + dt < SnoozeMillis(alarmSnoozeMins, alarmSnoozeSecs)
          THEN /\ UNCHANGED brightness
               /\ Sampled
               /\ \E r \in Polls(deb), l \in ChordSamples :
                     /\ lines' = l
                     /\ IF AllHeld(l)
                        THEN /\ \E d \in Consumed(Polled(r)) : deb' = d
                             /\ pc' = "skipped"
                             /\ ed' = [BlueFlash(ed, ed.elapsed + dt) EXCEPT
                                          !.elapsed = ed.elapsed + dt, !.i = 0]
                        ELSE /\ deb' = Polled(r)
                             /\ pc' = "snooze"
                             /\ ed' = [BlueFlash(ed, ed.elapsed + dt) EXCEPT
                                          !.elapsed = ed.elapsed + dt]
          ELSE /\ lines' = NoLines
               /\ brightness' = HaltAuto(brightness)
               /\ backlight' = FullLight
               /\ \E d \in Consumed(deb) : deb' = d
               /\ pc' = "alert"
               /\ \E m \in AlertStarts :
                     ed' = [ed EXCEPT !.blueLED = "LOW", !.flash = TRUE,
                                      !.elapsed = m]
    /\ pressed' = 0
    /\ Stepped
    /\ UNCHANGED <<rtc, ticks, eeprom, settings, alarmDisabled, timeObj, session,
                   edits, entryBright, sounded, reached>>

\* one evaluation of the alert's loop condition: getPressed() gave 0 and
\* the body runs its pulse, after which elapsed is taken again (kept within
\* the pulse cycle); or a press ends the loop and the red LED is written low
PinAlertIter ==
    /\ pc = "alert"
    /\ \E r \in Polls(deb) :
          /\ pressed' = r.ret
          /\ IF AlertGoesOn(r.ret)
             THEN /\ deb' = Polled(r)
                  /\ pc' = "alert"
                  /\ \E dt \in PinSteps :
                        ed' = [AlertPulse(ed, ed.elapsed) EXCEPT
                                  !.elapsed = (ed.elapsed + dt) % PulseMs]
             ELSE /\ \E d \in Consumed(Polled(r)) : deb' = d
                  /\ pc' = "dismissed"
                  /\ ed' = [ed EXCEPT !.redLED = "LOW", !.i = 0,
                                      !.cut = (ed.buzzer = "LOW")]
    /\ lines' = NoLines
    /\ Sampled
    /\ Stepped
    /\ UNCHANGED <<rtc, ticks, eeprom, settings, brightness, alarmDisabled, timeObj,
                   session, edits, entryBright, sounded, reached>>

\* the beep loop of SNOOZE SKIPPED! is over: background(800), then return
PinSkippedEnd ==
    /\ pc = "skipped"
    /\ ed.i = BeepPasses
    /\ \E d \in DebStates : deb' = d
    /\ pc' = "afterAlarm"
    /\ ed' = [ed EXCEPT !.via = "skipped"]
    /\ Sampled
    /\ UNCHANGED <<pressed, lines, brightness>>
    /\ Stepped
    /\ UNCHANGED <<rtc, ticks, eeprom, settings, alarmDisabled, timeObj, session,
                   edits, entryBright, sounded, reached>>

\* the beep loop of DISMISSED! is over: brightness is restored, then return
PinDismissedEnd ==
    /\ pc = "dismissed"
    /\ ed.i = BeepPasses
    /\ deb' = AfterDelay(deb)
    /\ brightness' = ResumeAuto(brightness)
    /\ backlight' \in LevelsFor(ResumeAuto(brightness))
    /\ pc' = "afterAlarm"
    /\ ed' = [ed EXCEPT !.via = "dismissed"]
    /\ UNCHANGED <<pressed, lines>>
    /\ Stepped
    /\ UNCHANGED <<rtc, ticks, eeprom, settings, alarmDisabled, timeObj, session,
                   edits, entryBright, sounded, reached>>

PinNext ==
    \/ PinBeep
    \/ PinAnnounceEnd
    \/ PinSnoozeIter
    \/ PinAlertIter
    \/ PinSkippedEnd
    \/ PinDismissedEnd

PinSpec == PinInit /\ [][PinNext]_vars

(* ------------------------------------------------------------------ *)
(* The countdown's timing in the widths of the build: int of 16 bits,  *)
(* unsigned long of 32 bits held as two halves of 16 bits, millis()    *)
(* wrapping at 2^32                                                    *)
(* ------------------------------------------------------------------ *)

\* values of one half of an unsigned long
Word == 65536

\* sleepDuration of the background() the skipped countdown ends in
SkipWaitMs == 800

\* what millis() can be when a timer is taken: 0, 500 ms before it wraps,
\* and about 39 minutes before it wraps
TimerStarts ==
    {[hi |-> 0, lo |-> 0], [hi |-> Word - 1, lo |-> Word - 500],
     [hi |-> Word - 36, lo |-> 0]}

\* the unsigned long of the whole number v
U32(v) == [hi |-> (v \div Word) % Word, lo |-> v % Word]

\* a + n in 32 bits, n a whole number from 0 up
U32Add(a, n) == [hi |-> (a.hi + ((a.lo + n) \div Word)) % Word, lo |-> (a.lo + n) % Word]

\* variant of U32Sub that gives 0 when millis() is below the timer
U32SubOrZero(a, b) ==
    IF a.hi < b.hi \/ (a.hi = b.hi /\ a.lo < b.lo) THEN [hi |-> 0, lo |-> 0]
    ELSE [hi |-> (a.hi - b.hi - (IF a.lo < b.lo THEN 1 ELSE 0)) % Word,
          lo |-> (a.lo - b.lo) % Word]

\* a - b in 32 bits: millis() - snoozeTimer, millis() - sleepTimer
U32Sub(a, b) ==
    [hi |-> (a.hi - b.hi - (IF a.lo < b.lo THEN 1 ELSE 0)) % Word,
     lo |-> (a.lo - b.lo) % Word]

\* a < b for unsigned longs
U32Less(a, b) == a.hi < b.hi \/ (a.hi = b.hi /\ a.lo < b.lo)

\* snoozeTimer = millis() has been taken and snoozeMillis computed; the
\* countdown is about to evaluate its loop condition.  real is the time that
\* has passed since the timer was taken
WrapInit ==
    /\ pc = "snooze"
    /\ InSession(SnoozeSettings)
    /\ brightness = 0
    /\ backlight \in LevelsFor(brightness)
    /\ \E t \in TimerStarts :
          ed = [timer |-> t, millis |-> t, real |-> 0,
                elapsed |-> U32(0), sum |-> Int16((alarmSnoozeMins * 60) + alarmSnoozeSecs),
                snoozeMillis |-> U32(SnoozeMillis(alarmSnoozeMins, alarmSnoozeSecs))]

\* one evaluation of the countdown's loop condition after dt more
\* milliseconds: the body with its chord check, or the exit to the alert
WrapIter ==
    /\ pc = "snooze"
    /\ \E dt \in BarSteps(SnoozeMillis(alarmSnoozeMins, alarmSnoozeSecs)) :
          LET now     == U32Add(ed.millis, dt)
              elapsed == U32Sub(now, ed.timer)
          IN  IF U32Less(elapsed, ed.snoozeMillis)
              THEN /\ UNCHANGED brightness
                   /\ Sampled
                   /\ \E l \in ChordSamples :
                         /\ lines' = l
                         /\ deb' = Absorb(l, deb)
                         /\ IF AllHeld(l)
                            THEN /\ pc' = "skipped"
                                 /\ ed' = [ed EXCEPT !.timer = now, !.millis = now,
                                                     !.real = 0, !.elapsed = U32(0)]
                            ELSE /\ pc' = "snooze"
                                 /\ ed' = [ed EXCEPT !.millis = now, !.elapsed = elapsed,
                                                     !.real = ed.real + dt]
              ELSE /\ lines' = NoLines
                   /\ brightness' = HaltAuto(brightness)
                   /\ backlight' = FullLight
                   /\ \E d \in Consumed(deb) : deb' = d
                   /\ pc' = "alert"
                   /\ ed' = [ed EXCEPT !.millis = now, !.elapsed = elapsed,
                                       !.real = ed.real + dt]
    /\ pressed' = 0
    /\ Stepped
    /\ UNCHANGED <<rtc, ticks, eeprom, settings, alarmDisabled, timeObj, session,
                   edits, entryBright, sounded, reached>>

\* background(800) after SNOOZE SKIPPED!: one evaluation of its loop
\* condition after dt more milliseconds, then getPressed() or the return
WrapBackground ==
    /\ pc = "skipped"
    /\ \E dt \in {125, 500} :
          LET now     == U32Add(ed.millis, dt)
              elapsed == U32Sub(now, ed.timer)
          IN  /\ ed' = [ed EXCEPT !.millis = now, !.elapsed = elapsed,
                                  !.real = ed.real + dt]
              /\ IF U32Less(elapsed, U32(SkipWaitMs))
                 THEN /\ pc' = "skipped"
                      /\ deb' = Absorb(NoLines, deb)
                      /\ Sampled
                 ELSE /\ pc' = "afterAlarm"
                      /\ UNCHANGED <<deb, backlight>>
    /\ UNCHANGED <<pressed, lines, brightness>>
    /\ Stepped
    /\ UNCHANGED <<rtc, ticks, eeprom, settings, alarmDisabled, timeObj, session,
                   edits, entryBright, sounded, reached>>

WrapNext == WrapIter \/ WrapBackground

WrapSpec == WrapInit /\ [][WrapNext]_vars

(* ------------------------------------------------------------------ *)
(* The challenge on its own, with the presses counted                  *)
(* ------------------------------------------------------------------ *)

\* the challenge values the session is followed for
ChallengeSizes == {1, 2, 3}

\* soundAlarm has drawn the first target with points = 0; presses counts the
\* presses the question loop has taken (as far as the challenge value), wrong
\* tells whether one of them missed the target
ChalInit ==
    /\ pc = "prompt"
    /\ clock \in InitClocks
    /\ rtcDate = InitCalendar.date
    /\ rtcDow = InitCalendar.dow
    /\ ticks = 0
    /\ ticked = FALSE
    /\ eeprom \in { [e EXCEPT ![2] = n] :
                      e \in { i \in InitEeproms : i[4] = 0 /\ i[6] = 0 },
                      n \in ChallengeSizes }
    /\ SettingsLoaded
    /\ entryBright = 0
    /\ brightness = HaltAuto(entryBright)
    /\ backlight = FullLight
    /\ alarmDisabled = FALSE
    /\ timeObj = clock
    /\ points = 0
    /\ num \in 1..4
    /\ snoozeElapsed = 0
    /\ ed = [presses |-> 0, wrong |-> FALSE]
    /\ edits = 0
    /\ sounded = TRUE
    /\ reached = TRUE
    /\ pressed = 0
    /\ lines = NoLines
    /\ deb = [last |-> 0, ok |-> TRUE]
    /\ smp = SmpStart
    /\ trail = NoTrail

\* one iteration of the question loop: getPressed() is called and its value
\* taken as no press, as the press that ends a session without challenge, as
\* a correct or as an incorrect answer
ChalPoll ==
    /\ pc \in {"prompt", "poll"}
    /\ \E r \in Polls(deb) :
          LET a == Answer(r.ret, num, alarmChallenge) IN
          /\ pressed' = r.ret
          /\ ed' = IF a = "none" THEN ed
                   ELSE [presses |-> IF ed.presses < alarmChallenge
                                     THEN ed.presses + 1 ELSE ed.presses,
                         wrong |-> ed.wrong \/ a = "incorrect"]
          /\ CASE a = "none" ->
                    /\ deb' = Polled(r)
                    /\ pc' = "poll"
                    /\ UNCHANGED <<points, num>>
               [] a = "any" ->
                    /\ \E d \in Consumed(Polled(r)) : deb' = d
                    /\ IF ChallengeDone(points, alarmChallenge)
                       THEN pc' = "announce" /\ UNCHANGED num
                       ELSE pc' = "prompt" /\ \E n \in 1..4 : num' = n
                    /\ UNCHANGED points
               [] a = "correct" ->
                    /\ deb' = Polled(r)
                    /\ points' = IncPoints(points)
                    /\ pc' = "correct"
                    /\ UNCHANGED num
               [] a = "incorrect" ->
                    /\ deb' = Polled(r)
                    /\ points' = DecPoints(points)
                    /\ pc' = "incorrect"
                    /\ UNCHANGED num
    /\ lines' = NoLines
    /\ Sampled
    /\ Stepped
    /\ UNCHANGED <<rtc, ticks, eeprom, settings, brightness, alarmDisabled, timeObj,
                   snoozeElapsed, edits, entryBright, sounded, reached>>

ChalNext == ChalPoll \/ FeedbackEnd \/ Elapse

\* the question loop keeps being run, the feedback's delays end and time
\* passes
ChalSpec ==
    /\ ChalInit /\ [][ChalNext]_vars
    /\ WF_vars(ChalPoll) /\ WF_vars(FeedbackEnd) /\ WF_vars(Elapse)

(* ------------------------------------------------------------------ *)
(* Properties                                                         *)
(* ------------------------------------------------------------------ *)

\* C1: once soundAlarm has been entered, loop does not enter it again while
\* the clock minute and the alarm time stay as they were (sounded), and at
\* the clockface the latch is then set as long as the clock equals the alarm
\* time: the alarm fires at most once per matching minute.
C1_OncePerMinute ==
    [][ /\ (pc = "loop" /\ pc' = "prompt") => ~sounded
        /\ (pc' = "loop" /\ sounded' /\ clock' = <<alarmHrs', alarmMins'>>)
              => alarmDisabled' ]_vars

\* C1: the clockface in the alarm minute after the session, alarm on, held
\* back by the latch alone
C1_Witness ==
    /\ pc = "loop" /\ sounded /\ alarmDisabled /\ alarmState
    /\ clock = AlarmTime /\ timeObj = clock

\* C2: whenever the real-time clock ticks into the alarm minute, the latch
\* has been cleared since it was set, whatever was edited and whatever part
\* of a session ran in between.
C2_LatchClearBeforeMatch ==
    [][ (ticks' # ticks /\ clock' = AlarmTime) => ~alarmDisabled ]_vars

\* C3: with the alarm on, when the clock has ticked into the alarm minute
\* with the device at the clockface, in an editor, the brightness UI or debug
\* mode (reached), soundAlarm is entered before the clock leaves that minute.
C3_SoundsWithinMinute ==
    [][ (ticks' # ticks /\ reached) => sounded ]_vars

\* C4: the challenge goes to ALARM DISABLED exactly when a press is reported
\* with the challenge at 0, or when the press handled equalled the target and
\* raised points to exactly alarmChallenge (then through CORRECT!); no other
\* step leads there.
C4_ChallengeEnds ==
    [][ /\ (pc # "announce" /\ pc' = "announce") =>
              \/ pc \in {"prompt", "poll"} /\ alarmChallenge = 0 /\ pressed' # 0
              \/ /\ pc = "correct" /\ alarmChallenge > 0
                 /\ pressed = num /\ points = alarmChallenge
        /\ (pc \in {"prompt", "poll"} /\ pc' \in AlarmPcs /\ pressed' # 0
              /\ alarmChallenge = 0) => pc' = "announce"
        /\ (pc \in {"prompt", "poll"} /\ pc' \in AlarmPcs /\ pressed' = num
              /\ alarmChallenge > 0) => (pc' = "correct" /\ points' = points + 1)
        /\ (pc = "correct" /\ pc' # "correct") =>
              (pc' = "announce" <=> points = alarmChallenge) ]_vars

\* C4: ALARM DISABLED reached by the second correct answer of a challenge of 2
C4_Witness ==
    pc = "announce" /\ alarmChallenge = 2 /\ points = 2

\* C5: in every state of an alarm session 0 <= points <= alarmChallenge.
C5_PointsInRange ==
    pc \in AlarmPcs => (points >= 0 /\ points <= alarmChallenge)

\* C5: an incorrect answer given at 0 points has left points at 0
C5_Witness ==
    pc = "incorrect" /\ points = 0 /\ alarmChallenge = 1 /\ pressed # num

\* C6: with the snooze duration 0 the ALARM DISABLED announcement is followed
\* by the return of soundAlarm, and the countdown, SNOOZE SKIPPED, the alert
\* and DISMISSED are never entered; with a duration other than 0 the
\* announcement is always followed by the countdown.
C6_SnoozeNoneReturns ==
    [][ /\ (pc = "announce" /\ pc' # "announce") =>
              IF alarmSnoozeMins = 0 /\ alarmSnoozeSecs = 0
              THEN pc' = "afterAlarm"
              ELSE pc' = "snooze" /\ snoozeElapsed' = 0
        /\ pc' \in {"snooze", "skipped", "alert", "dismissed"} =>
              ~(alarmSnoozeMins' = 0 /\ alarmSnoozeSecs' = 0) ]_vars

\* C6: soundAlarm has returned with the snooze duration 0
C6_Witness ==
    pc = "afterAlarm" /\ alarmSnoozeMins = 0 /\ alarmSnoozeSecs = 0

\* C7: an iteration of the countdown goes to SNOOZE SKIPPED exactly when it
\* runs before the duration has elapsed and reads all four lines active;
\* every other iteration before expiry stays in the countdown; the alert is
\* entered exactly when the duration has elapsed; and SNOOZE SKIPPED is
\* followed by the return of soundAlarm, never by the alert.
C7_SkipIffChord ==
    [][ /\ pc = "snooze" =>
              /\ pc' \in {"snooze", "skipped", "alert"}
              /\ pc' = "skipped" <=>
                    /\ lines' = {1, 2, 3, 4}
                    /\ snoozeElapsed' < (alarmSnoozeMins * 60) + alarmSnoozeSecs
              /\ pc' = "alert" <=>
                    snoozeElapsed' >= (alarmSnoozeMins * 60) + alarmSnoozeSecs
        /\ pc = "skipped" => pc' \in {"skipped", "afterAlarm"} ]_vars

\* C7: the chord has been read before expiry and SNOOZE SKIPPED is showing
C7_Witness ==
    /\ pc = "skipped" /\ lines = {1, 2, 3, 4}
    /\ snoozeElapsed < (alarmSnoozeMins * 60) + alarmSnoozeSecs

\* C8: an iteration of the snooze alert goes to DISMISSED exactly when
\* getPressed reports a press, whichever button it is, and otherwise stays in
\* the alert; DISMISSED is followed by the return of soundAlarm.
C8_AlertLeftByPress ==
    [][ /\ pc = "alert" =>
              /\ pc' \in {"alert", "dismissed"}
              /\ pc' = "dismissed" <=> pressed' # 0
        /\ pc = "dismissed" => pc' \in {"dismissed", "afterAlarm"} ]_vars

\* C8: the alert has been dismissed with the button of lowest priority
C8_Witness ==
    pc = "dismissed" /\ pressed = 4

\* C9: when soundAlarm has returned, brightness is what it was when
\* soundAlarm was entered.
C9_BrightnessRestored ==
    pc = "afterAlarm" => brightness = entryBright

\* C9: soundAlarm has returned after a dismissed snooze alert that it entered
\* in automatic mode
C9_Witness ==
    /\ pc = "afterAlarm" /\ entryBright = 0 /\ brightness = 0
    /\ snoozeElapsed > 0
    /\ snoozeElapsed >= (alarmSnoozeMins * 60) + alarmSnoozeSecs

\* where automatic brightness is halted: boot with the chord held and the
\* secret timer, and the two stretches of soundAlarm with the backlight forced
OverridePcs ==
    {"secretWait", "secretCount", "secretDone",
     "prompt", "poll", "correct", "incorrect", "announce", "alert", "dismissed"}

\* C10 as stated: brightness is in [0,17] in every reachable state.
C10_AlwaysInLevels ==
    brightness \in 0..17

\* C10 as amended: brightness is in [0,17] in every reachable state, except
\* that automatic mode (0) is held as 255 while the backlight is forced.
C10_LevelsOrHalted ==
    /\ brightness \in (0..17) \cup {AutoHalted}
    /\ brightness = AutoHalted => pc \in OverridePcs
    /\ pc \in OverridePcs => brightness # 0

\* C10: the snooze alert with automatic mode halted
C10_Witness ==
    pc = "alert" /\ brightness = AutoHalted /\ entryBright = 0

\* C11 as stated: whenever the user interface runs, the brightness that a
\* reboot would load (setup reads store address 6) is the brightness in use,
\* so every change made with Up/Down survives a reboot.
C11_RebootLoadsBrightness ==
    pc \in UiPcs =>
        (IF eeprom[6] \in 0..17 THEN eeprom[6] ELSE 0) = brightness

\* one poll of getPressed by the open editor, whichever way the editor goes on
EditorStep ==
    \/ EditorPoll
    \/ CommitTime \/ CommitDate \/ CommitDow
    \/ CommitAlarm \/ CommitChallenge \/ CommitSnooze \/ CommitState

\* the open editor polls getPressed and reads b
EditorReads(b) == EditorStep /\ pressed' = b

\* number of fields n of the editor behind each stage
FieldCount(p) ==
    CASE p \in {"setTime", "setAlarm", "setSnooze"} -> 2
      [] p = "setDate" -> 3
      [] OTHER -> 1

\* where the caller goes when the editor of stage p returns true
StageAfter(p) ==
    CASE p = "setTime" -> "setDate"
      [] p = "setDate" -> "setDow"
      [] p = "setAlarm" -> "setChallenge"
      [] p = "setChallenge" -> "setSnooze"
      [] p = "setSnooze" -> "setState"
      [] OTHER -> "loop"

\* value of the field that is selected
ActiveVal(e) == IF e.f = 0 THEN e.a ELSE IF e.f = 1 THEN e.b ELSE e.c

\* C12: in an editor with n fields, Confirm read with a non-last field
\* selected selects the next field and the editor goes on; Confirm read with
\* the last field selected makes the editor return true (the caller moves to
\* the next stage); and an editor is left only that way or by Cancel, so a
\* session returns true at most once, after n Confirm events and no Cancel.
C12_ConfirmAdvancesOrReturns ==
    [][/\ (EditorReads(1) /\ ed.f + 1 < FieldCount(pc)) =>
              /\ pc' = pc
              /\ ed' = [ed EXCEPT !.f = ed.f + 1]
       /\ (EditorReads(1) /\ ed.f + 1 = FieldCount(pc)) =>
              /\ pc' = StageAfter(pc)
              /\ pc' # "loop" => ed'.f = 0
       /\ (EditorStep /\ pressed' # 1) => ed'.f = ed.f \/ pc' = "loop"
       /\ (pc \in EditorPcs /\ pc' # pc) =>
              \/ pressed' = 1 /\ ed.f + 1 = FieldCount(pc) /\ pc' = StageAfter(pc)
              \/ pressed' = 2 /\ pc' = "loop"
      ]_vars

\* C12: chDate has returned true on its third Confirm: the date it edited is
\* in the clock and the day-of-week editor is open
C12_Witness ==
    /\ pc = "setDow" /\ pressed = 1 /\ ed.f = 0
    /\ rtcDate = <<1, 2, 2022>>

\* C13: Cancel read by an editor, whichever field is selected and whatever
\* was edited, ends the editor on that poll and takes the caller back to the
\* clockface with RAM settings, store, clock and brightness as they were;
\* and no poll that keeps the editor open writes any of them, so they are as
\* they were when the editor was opened.
C13_CancelLeavesAll ==
    [][/\ EditorReads(2) =>
              /\ pc' = "loop"
              /\ ed' = NoEd
              /\ UNCHANGED <<settings, eeprom, rtc, brightness>>
       /\ (EditorStep /\ pc' = pc) =>
              UNCHANGED <<settings, eeprom, rtc, brightness>>
      ]_vars

\* C13: the alarm-time editor was cancelled on its second field after an
\* edit: the alarm time and the store are as before
C13_Witness ==
    /\ pc = "loop" /\ pressed = 2 /\ edits = 1 /\ ed = NoEd
    /\ alarmHrs = eeprom[0] /\ alarmMins = eeprom[1]
    /\ alarmChallenge = 2 /\ eeprom[2] = 2
    /\ clock = timeObj

\* C14: Up or Down changes the selected field only: the other fields and
\* the selection stay; chTime at 23:00 with the hour selected goes to 0:00
\* on Up with the hour still selected.
C14_OnlyActiveFieldChanges ==
    [][/\ (EditorReads(3) \/ EditorReads(4)) =>
              /\ pc' = pc
              /\ ed'.f = ed.f
              /\ ed.f # 0 => ed'.a = ed.a
              /\ ed.f # 1 => ed'.b = ed.b
              /\ ed.f # 2 => ed'.c = ed.c
       /\ (EditorReads(3) /\ pc = "setTime"
             /\ ed.a = 23 /\ ed.b = 0 /\ ed.f = 0) =>
              ed' = [a |-> 0, b |-> 0, c |-> ed.c, f |-> 0]
      ]_vars

\* C14: chTime after Up at 23:00 with the hour selected
C14_Witness ==
    /\ pc = "setTime" /\ pressed = 3 /\ edits = 1
    /\ ed.a = 0 /\ ed.b = 0 /\ ed.f = 0

\* modulus N of the selected field where it is zero-based, 0 elsewhere
ZeroBasedN(p, f) ==
    CASE p \in {"setTime", "setAlarm"} -> IF f = 0 THEN 24 ELSE 60
      [] p = "setSnooze" -> 60
      [] p = "setChallenge" -> 100
      [] OTHER -> 0

\* C15: on hour (N = 24), minute and second (N = 60) and challenge count
\* (N = 100), Up gives v+1 and 0 at N-1, Down gives v-1 and N-1 at 0.
C15_ZeroBasedWrap ==
    [][LET n == ZeroBasedN(pc, ed.f)
           v == ActiveVal(ed)
       IN  n > 0 =>
              /\ EditorReads(3) =>
                    ActiveVal(ed') = (IF v = n - 1 THEN 0 ELSE v + 1)
              /\ EditorReads(4) =>
                    ActiveVal(ed') = (IF v = 0 THEN n - 1 ELSE v - 1)
      ]_vars

\* C15: chChallenge after Down at 0
C15_Witness ==
    pc = "setChallenge" /\ pressed = 4 /\ edits = 1 /\ ed.a = 99

\* bound N of the selected field where it is one-based and wraps, 0 elsewhere
OneBasedN(p, f) ==
    CASE p = "setDate" -> IF f = 0 THEN 31 ELSE IF f = 1 THEN 12 ELSE 0
      [] p = "setDow" -> 7
      [] p = "setState" -> 2
      [] OTHER -> 0

\* C16: on day (N = 31), month (N = 12) and list index (N = length of the
\* list), Up gives v+1 and 1 at N, Down gives v-1 and N at 1; the day wraps
\* at 31 in every month and year.
C16_OneBasedWrap ==
    [][LET n == OneBasedN(pc, ed.f)
           v == ActiveVal(ed)
       IN  n > 0 =>
              /\ EditorReads(3) =>
                    ActiveVal(ed') = (IF v = n THEN 1 ELSE v + 1)
              /\ EditorReads(4) =>
                    ActiveVal(ed') = (IF v = 1 THEN n ELSE v - 1)
      ]_vars

\* C16: chDate after Up at 30 February
C16_Witness ==
    /\ pc = "setDate" /\ pressed = 3 /\ edits = 1
    /\ ed.f = 0 /\ ed.a = 31 /\ ed.b = 2

\* C17: the year goes up to 9999 and down to 1000 and stays there.
C17_YearSaturates ==
    [][(pc = "setDate" /\ ed.f = 2) =>
          /\ EditorReads(3) =>
                ed'.c = (IF ed.c + 1 > 9999 THEN 9999 ELSE ed.c + 1)
          /\ EditorReads(4) =>
                ed'.c = (IF ed.c - 1 < 1000 THEN 1000 ELSE ed.c - 1)
      ]_vars

\* C17: chDate after Up at year 9999
C17_Witness ==
    /\ pc = "setDate" /\ pressed = 3 /\ edits = 1
    /\ ed.f = 2 /\ ed.c = 9999

\* C18: in every editor every field is in its range, whatever was pressed.
C18_FieldsInRange ==
    /\ pc \in {"setTime", "setAlarm"} => ed.a \in 0..23 /\ ed.b \in 0..59
    /\ pc = "setSnooze" => ed.a \in 0..59 /\ ed.b \in 0..59
    /\ pc = "setDate" =>
          ed.a \in 1..31 /\ ed.b \in 1..12 /\ ed.c \in 1000..9999
    /\ pc = "setDow" => ed.a \in 1..7
    /\ pc = "setState" => ed.a \in 1..2
    /\ pc = "setChallenge" => ed.a \in 0..99

\* C18: chDate after Down at 1 February
C18_Witness ==
    /\ pc = "setDate" /\ pressed = 4 /\ edits = 1
    /\ ed.f = 0 /\ ed.a = 31 /\ ed.b = 2

\* the stages of alarm setup
AlarmStages == {"setAlarm", "setChallenge", "setSnooze", "setState"}

\* C19: each stage of alarm setup whose editor returns true has its values
\* in RAM and in the store when the next stage opens, and writes nothing
\* else; Cancel in any stage goes back to the clockface with every setting
\* and the store as they are, so the earlier stages stay committed and the
\* cancelled stage keeps its previous value.
C19_StagesWriteThrough ==
    [][(pc \in AlarmStages /\ pc' # pc) =>
          \/ /\ pressed' = 2
             /\ pc' = "loop"
             /\ UNCHANGED <<settings, eeprom>>
          \/ /\ pressed' = 1
             /\ pc' = StageAfter(pc)
             /\ CASE pc = "setAlarm" ->
                       /\ alarmHrs' = ed.a /\ alarmMins' = ed.b
                       /\ eeprom' = [eeprom EXCEPT ![0] = ed.a, ![1] = ed.b]
                       /\ UNCHANGED <<alarmChallenge, alarmSnoozeMins,
                                      alarmSnoozeSecs, alarmState>>
                  [] pc = "setChallenge" ->
                       /\ alarmChallenge' = ed.a
                       /\ eeprom' = [eeprom EXCEPT ![2] = ed.a]
                       /\ UNCHANGED <<alarmHrs, alarmMins, alarmSnoozeMins,
                                      alarmSnoozeSecs, alarmState>>
                  [] pc = "setSnooze" ->
                       /\ alarmSnoozeMins' = ed.a /\ alarmSnoozeSecs' = ed.b
                       /\ eeprom' = [eeprom EXCEPT ![3] = ed.a, ![4] = ed.b]
                       /\ UNCHANGED <<alarmHrs, alarmMins, alarmChallenge,
                                      alarmState>>
                  [] pc = "setState" ->
                       /\ alarmState' = (ed.a = 2)
                       /\ eeprom' = [eeprom EXCEPT
                                        ![5] = IF ed.a = 2 THEN 1 ELSE 0]
                       /\ UNCHANGED <<alarmHrs, alarmMins, alarmChallenge,
                                      alarmSnoozeMins, alarmSnoozeSecs>>
      ]_vars

\* C19: the alarm time was confirmed as 8:00 and the challenge stage was then
\* cancelled after an edit: 8:00 is in RAM and in the store, the challenge
\* count is the previous one
C19_Witness ==
    /\ pc = "loop" /\ pressed = 2 /\ edits = 1 /\ ed = NoEd
    /\ alarmHrs = 8 /\ eeprom[0] = 8
    /\ alarmChallenge = 2 /\ eeprom[2] = 2

\* the value setup takes for a stored byte v with range 0..hi and default d
Taken(v, hi, d) == IF v \in 0..hi THEN v ELSE d

\* C20: whatever the store holds at boot, after setup every setting is the
\* stored byte when that is in range and the default otherwise (alarm hour
\* 0, alarm minute 0, challenge 10, snooze minutes 0, snooze seconds 0,
\* brightness 0), hence in range, and the alarm is enabled exactly when its
\* byte is 1.  On a boot with the chord held, the brightness so loaded is
\* held as 255 while it is automatic (see C10).
C20_LoadedInRange ==
    pc # "boot" =>
        /\ alarmHrs = Taken(eeprom[0], 23, 0) /\ alarmHrs \in 0..23
        /\ alarmMins = Taken(eeprom[1], 59, 0) /\ alarmMins \in 0..59
        /\ alarmChallenge = Taken(eeprom[2], 99, 10) /\ alarmChallenge \in 0..99
        /\ alarmSnoozeMins = Taken(eeprom[3], 59, 0) /\ alarmSnoozeMins \in 0..59
        /\ alarmSnoozeSecs = Taken(eeprom[4], 59, 0) /\ alarmSnoozeSecs \in 0..59
        /\ alarmState = (eeprom[5] = 1)
        /\ pc = "loop" =>
              brightness = Taken(eeprom[6], 17, 0) /\ brightness \in 0..17
        /\ pc = "secretWait" =>
              brightness = (IF Taken(eeprom[6], 17, 0) = 0 THEN 255
                            ELSE Taken(eeprom[6], 17, 0))

\* C20: setup has run on a store whose challenge byte is erased: the
\* challenge count is the default
C20_Witness ==
    /\ pc = "loop" /\ eeprom[2] = 255 /\ alarmChallenge = 10
    /\ eeprom[0] = 7 /\ alarmHrs = 7

(* C21: getPressed reports a press only after the line has been active for  *)
(* at least 100 ms. As stated: a poll returns b only if line b has been     *)
(* active for 100 ms or more.                                               *)
C21_LineActiveLongEnough ==
    [][Poll /\ smp'.ret # 0 => smp.lineAge[smp'.ret] >= DebounceMs]_vars

(* C21 as the code has it: a poll returns b only if line b is active in     *)
(* that poll, the last event registered is a release (or none), and at      *)
(* least 100 ms have passed since that event was registered; how long the   *)
(* line has been active plays no part.                                      *)
C21_ReportAfterQuiet ==
    [][Poll /\ smp'.ret # 0 =>
          /\ smp'.ret \in lines
          /\ deb.last = 0
          /\ smp.pressAge >= DebounceMs]_vars

\* a press is reported in the very poll that first sees the line active
C21_Witness ==
    /\ smp.ret = 3 /\ lines = {3} /\ smp.lineAge[3] = 0
    /\ smp.repAge = 0 /\ pressed = 3

(* C22: while some line stays active at most one poll returns non-zero; a   *)
(* further non-zero return needs a poll that saw all lines inactive 100 ms  *)
(* or more after the report, and then 100 ms more before the new press is   *)
(* polled.                                                                  *)
C22_OncePerPress ==
    [][Poll /\ smp'.ret # 0 /\ smp.repAge >= 0 =>
          /\ smp.held = {}
          /\ ~smp.holding
          /\ smp.idleAge >= DebounceMs]_vars

\* a second press is reported after the first one was released
C22_Witness ==
    /\ smp.ret = 4 /\ smp.again /\ lines = {4} /\ smp.repAge = 0
    /\ smp.idleAge = -1

C24_StepsCycle ==
    /\ [][/\ StepUp => brightness' = IF brightness = 17 THEN 0 ELSE brightness + 1
          /\ StepDown => brightness' = IF brightness = 0 THEN 17 ELSE brightness - 1
         ]_vars
    /\ [](/\ brightness \in 0..17
          /\ \E k \in -1..1 :
                brightness + 18 * k = trail.start + trail.ups - trail.downs
          /\ trail.ups = trail.downs => brightness = trail.start
          /\ trail.ups = 18 /\ trail.downs = 0 => brightness = trail.start
          /\ trail.start = 0 /\ trail.ups = 1 /\ trail.downs = 0 => brightness = 1
          /\ trail.start = 1 /\ trail.ups = 0 /\ trail.downs = 1 => brightness = 0
          /\ trail.start = 17 /\ trail.ups = 1 /\ trail.downs = 0 => brightness = 0)

\* eighteen Ups from level 5 have come back to level 5
C24_Witness ==
    /\ trail.start = 5 /\ trail.ups = 18 /\ trail.downs = 0 /\ brightness = 5

(* C25: an incorrect press in a challenge with alarmChallenge > 0 sets      *)
(* points to max(0, points-1), leaves the target as it is for the next      *)
(* prompt and does not end the challenge; the target changes only after a   *)
(* correct press.                                                           *)
C25_IncorrectKeepsTarget ==
    [][ /\ (/\ pc \in {"prompt", "poll"} /\ alarmChallenge > 0
            /\ pressed' # 0 /\ pressed' # num) =>
              /\ points' = IF points = 0 THEN 0 ELSE points - 1
              /\ num' = num
              /\ pc' = "incorrect"
        /\ (pc = "incorrect" /\ pc' # "incorrect") =>
              pc' = "prompt" /\ num' = num /\ points' = points
        /\ (/\ pc \in {"prompt", "poll", "correct", "incorrect"}
            /\ pc' \in {"prompt", "poll", "correct", "incorrect"}
            /\ alarmChallenge > 0 /\ num' # num) =>
              pc = "correct" /\ pressed = num ]_vars

\* Up was pressed for the target 4 in a challenge of 2
C25_Witness ==
    /\ pc = "incorrect" /\ alarmChallenge = 2 /\ points = 0
    /\ pressed = 3 /\ num = 4

(* C26: a correct press in a challenge with alarmChallenge > 0 adds exactly *)
(* one to points; while points is then below alarmChallenge a target is     *)
(* drawn for the next prompt, and every target shown is one of 1, 2, 3, 4.  *)
C26_CorrectAddsOne ==
    /\ [][ /\ (/\ pc \in {"prompt", "poll"} /\ alarmChallenge > 0
               /\ pressed' # 0 /\ pressed' = num) =>
                 points' = points + 1 /\ pc' = "correct" /\ num' = num
           /\ (/\ pc = "correct" /\ pc' # "correct"
               /\ points < alarmChallenge) =>
                 pc' = "prompt" /\ num' \in {1, 2, 3, 4} /\ points' = points
         ]_vars
    /\ [](pc \in {"prompt", "poll", "correct", "incorrect"} =>
              num \in {1, 2, 3, 4})

\* the first of two answers was correct
C26_Witness ==
    pc = "correct" /\ points = 1 /\ alarmChallenge = 2 /\ pressed = num

(* C27: from the start of the challenge to the end of ALARM DISABLED, and   *)
(* from the start of the snooze alert to the end of DISMISSED, the          *)
(* backlight output is 255, in automatic and in manual brightness alike.    *)
C27_BacklightForced ==
    pc \in {"prompt", "poll", "correct", "incorrect", "announce",
            "alert", "dismissed"} =>
        backlight = FullLight

\* getPressed has been polled in a challenge entered from automatic
\* brightness
C27_Witness ==
    /\ pc = "poll" /\ entryBright = 0 /\ brightness = AutoHalted
    /\ backlight = FullLight /\ pressed = 0

C29_BackgroundWaitsOut ==
    /\ [][ /\ (pc = "background" /\ pc' # "background") =>
                  pc' = "caller" /\ smp.bgAge >= smp.bgDur
           /\ pc = "background" => pressed' = pressed
           /\ (pc = "background" /\ smp.bgAge < smp.bgDur) => pc' = "background"
         ]_vars
    /\ (pc = "background" ~> pc = "caller")

\* background(800) has returned after 800 ms; all four buttons are held, the
\* press it read was dropped
C29_Witness ==
    /\ pc = "caller" /\ smp.bgDur = 800 /\ smp.bgAge = 800
    /\ lines = {1, 2, 3, 4} /\ smp.repAge >= 0 /\ deb.last = 1 /\ pressed = 0

(* C30: getPressed writes the backlight only when 1000 ms or more have      *)
(* passed since the window was reset and brightness is 0; it writes the     *)
(* curve of the midpoint of the lowest and highest reading of the window,   *)
(* lowest <= highest, and resets the window; with brightness other than 0   *)
(* no call writes the backlight.                                            *)
C30_WindowWrite ==
    /\ [][ Poll =>
             LET due == smp.brightAge >= 1000
                 readings == smp.seen \cup {smp'.cur}
                 lo == CHOOSE x \in readings : \A y \in readings : x <= y
                 hi == CHOOSE x \in readings : \A y \in readings : x >= y
                 mid == (lo + hi) \div 2
             IN  /\ smp'.wrote <=> (due /\ brightness = 0)
                 /\ smp'.wrote =>
                       /\ lo <= hi
                       /\ backlight' = IF mid >= 729 THEN 255
                                       ELSE IF mid <= 110 THEN 1
                                       ELSE (20000 \div (800 - mid)) - 28
                 /\ ~smp'.wrote => backlight' = backlight
                 /\ due => /\ smp'.brightAge = 0
                           /\ smp'.minSensor = 1024 /\ smp'.maxSensor = 0
                 /\ ~due => /\ smp'.brightAge = smp.brightAge
                            /\ smp'.minSensor = lo /\ smp'.maxSensor = hi
         ]_vars
    /\ [](brightness # 0 =>
             /\ ~smp.wrote
             /\ backlight = IF brightness = 255 THEN 255
                            ELSE ManualLevel(brightness))

\* a window that saw the readings 50 and 900 has ended in automatic
\* brightness: the curve of 475 was written
C30_Witness ==
    /\ brightness = 0 /\ smp.wrote /\ backlight = 33
    /\ smp.brightAge = 0 /\ smp.minSensor = 1024 /\ smp.maxSensor = 0

(* C31: for every sensor value in 0..1023 brightCurve returns a value in    *)
(* 1..255, 1 for every value up to 110 and 255 for every value from 729,    *)
(* and a higher sensor value never gives a lower result.                    *)
C31_CurveRangeMonotone ==
    /\ [](/\ backlight >= 1 /\ backlight <= 255
          /\ smp.cur <= 110 => backlight = 1
          /\ smp.cur >= 729 => backlight = 255)
    /\ [][smp'.cur > smp.cur => backlight' >= backlight]_vars

\* the reading just below the upper knee gives 249
C31_Witness ==
    pc = "brightUI" /\ brightness = 0 /\ smp.cur = 728 /\ backlight = 249

(* C32: after Up, Down or a Confirm that selects the next value, the next   *)
(* redraw of the editor paints the selected value as text, not as the       *)
(* cursor blocks; without input the redraws come 250 ms apart and paint     *)
(* text and blocks in turn.                                                 *)
C32_BlinkResets ==
    [][BlinkRender =>
          /\ ed.age >= 250
          /\ ed.await => ed'.shown = "text"
          /\ (~ed.await /\ ed.shown # "none") => ed'.shown # ed.shown]_vars

\* PROTOTYPE 2: Up was read after the value had been painted as text, and
\* the redraw that followed painted the cursor blocks
C32_BlocksAfterUp ==
    /\ pc = "setTime" /\ ed.rev = "prototype2" /\ pressed = 3
    /\ ed.shown = "block" /\ ~ed.await /\ ed.age = 0 /\ ed.a = 0

(* C33: during the second of CORRECT! / INCORRECT! and during ALARM         *)
(* DISABLED! no input is accepted: whatever the buttons do inside such a    *)
(* window, points and the target stay as they are while it lasts, and what  *)
(* follows it is fixed by points, the challenge and the snooze setting.     *)
C33_QuietWindows ==
    [][ /\ (pc \in {"correct", "incorrect", "announce"} /\ pc' = pc) =>
              points' = points /\ num' = num
        /\ (pc \in {"correct", "incorrect"} /\ pc' # pc) =>
              /\ points' = points
              /\ pc' = IF pc = "correct" /\ points >= alarmChallenge
                       THEN "announce" ELSE "prompt"
              /\ pc = "incorrect" => num' = num
              /\ num' \in {1, 2, 3, 4}
        /\ (pc = "announce" /\ pc' # pc) =>
              /\ points' = points /\ num' = num
              /\ pc' = IF alarmSnoozeMins = 0 /\ alarmSnoozeSecs = 0
                       THEN "afterAlarm" ELSE "snooze" ]_vars

\* all four buttons were pressed and released again during CORRECT!; the
\* next question is up with the one point kept
C33_Witness ==
    /\ pc = "prompt" /\ smp.quiet = {1, 2, 3, 4} /\ lines = {}
    /\ deb.last = 0 /\ points = 1 /\ pressed = 0

(* C34: in every iteration of the snooze countdown the base fill count of   *)
(* the progress bar equals floor(18 * elapsed / total) and lies in 0..17,   *)
(* it never decreases as elapsed grows, the number of block cells drawn     *)
(* never exceeds 18, the bar is exactly 18 cells wide, and the remaining    *)
(* minutes and seconds shown are each in 0..59.  As stated: the fill count  *)
(* is the floor in every iteration.                                         *)
C34_FillIsFloor ==
    (pc = "snooze" /\ ed.bar # << >>) =>
        ed.progress = (18 * ed.elapsed) \div ed.snoozeMillis

\* 32 min 58 s: at 1,868,111 ms the bar shows 17 cells while
\* 18 * elapsed / total is still below 17
C34_OneEarly ==
    /\ pc = "snooze" /\ ed.snoozeMillis = 1978000 /\ ed.elapsed = 1868111
    /\ ed.progress = 17 /\ (18 * ed.elapsed) \div ed.snoozeMillis = 16

(* C34, amended: the fill count is floor(18 * elapsed / total), or one more *)
(* than it in the last millisecond before it steps (the single-precision    *)
(* product rounds up to the whole number); it lies in 0..17 and never       *)
(* decreases as elapsed grows; at most 18 block cells are drawn, the bar is *)
(* exactly 18 cells wide, and the remaining minutes and seconds shown are   *)
(* each in 0..59.                                                           *)
C34_BarWithinOneMs ==
    /\ []((pc = "snooze" /\ ed.bar # << >>) =>
            /\ ed.progress >= (18 * ed.elapsed) \div ed.snoozeMillis
            /\ ed.progress <= (18 * (ed.elapsed + 1)) \div ed.snoozeMillis
            /\ ed.progress >= 0 /\ ed.progress <= 17
            /\ Len(ed.bar) = 18
            /\ Cardinality({ i \in 1..Len(ed.bar) : ed.bar[i] = "#" }) <= 18
            /\ Cardinality({ i \in 1..Len(ed.bar) : ed.bar[i] = "#" })
                  \in {ed.progress, ed.progress + 1}
            /\ ed.remainingMins >= 0 /\ ed.remainingMins <= 59
            /\ ed.remainingSecs >= 0 /\ ed.remainingSecs <= 59)
    /\ [][(BarIter /\ ed.bar # << >>) => ed'.progress >= ed.progress]_vars

\* 59 min 59 s: the last cell but one is filled and the half-step adds the
\* eighteenth block
C34_Witness ==
    /\ pc = "snooze" /\ ed.snoozeMillis = 3599000 /\ ed.progress = 17
    /\ ed.bar = [i \in 1..18 |-> "#"] /\ ed.remainingMins = 0

(* C35: after any sequence of clear, setCursor and print calls on           *)
(* BufferedLCD the character buffer equals the contents of the hardware     *)
(* display cell for cell, including after two prints with no setCursor      *)
(* between them and after a print that follows clear with no setCursor.     *)
C35_BufferIsDisplay ==
    pc = "lcd" => \A i \in 0..(LcdCells - 1) : ed.buffer[i] = ed.glass[i]

(* C36: no sequence of setCursor and print calls on BufferedLCD reads or    *)
(* writes the buffer outside indices [0, cols * rows): setCursor with       *)
(* x >= cols or y >= rows leaves the cursor unchanged, the cursor is always *)
(* below cols * rows, and a print whose string would run past the end of    *)
(* the buffer sends nothing to the hardware and leaves the buffer           *)
(* unchanged.                                                               *)
C36_BufferBounds ==
    /\ [](pc = "lcd" =>
            /\ ed.cursor >= 0 /\ ed.cursor < LcdCols * LcdRows
            /\ \A i \in ed.touched : i >= 0 /\ i < LcdCols * LcdRows
            /\ DOMAIN ed.buffer = 0..((LcdCols * LcdRows) - 1))
    /\ [][ /\ (LcdSetCursor /\ (ed'.args[1] >= LcdCols \/ ed'.args[2] >= LcdRows)) =>
                 ed'.cursor = ed.cursor /\ ed'.hwCursor = ed.hwCursor
           /\ (LcdSetCursor /\ ed'.args[1] < LcdCols /\ ed'.args[2] < LcdRows) =>
                 ed'.cursor = (ed'.args[2] * LcdCols) + ed'.args[1]
           /\ (LcdPrint /\ ed'.sent # << >>) =>
                 /\ ed.cursor + Len(ed'.sent) <= LcdCols * LcdRows
                 /\ ed'.touched = { ed.cursor + (k - 1) : k \in 1..Len(ed'.sent) }
           /\ (LcdPrint /\ ed'.touched = {}) =>
                 /\ ed'.sent = << >>
                 /\ ed'.buffer = ed.buffer /\ ed'.glass = ed.glass
           /\ LcdPrint => ed'.cursor = ed.cursor ]_vars

\* the cursor is on the last cell and a print of two characters was
\* refused: nothing was sent, no cell of the buffer was gone over
C36_Witness ==
    /\ pc = "lcd" /\ ed.op = "print" /\ ed.cursor = (LcdCols * LcdRows) - 1
    /\ ed.sent = << >> /\ ed.touched = {}
    /\ ed.buffer[(LcdCols * LcdRows) - 1] = "x"

\* setCursor was called with the column one past the last: the cursor stays
\* on the cell it was on
C36_OffDisplay ==
    /\ pc = "lcd" /\ ed.op = "setCursor" /\ ed.args = <<LcdCols, 0>>
    /\ ed.cursor = LcdCols + 1

(* C37: on every path by which soundAlarm returns (no snooze, snooze        *)
(* skipped, snooze alert dismissed in any phase of its 5000 ms pulse cycle) *)
(* the buzzer is off and both the red and the blue LED are off, and the     *)
(* buzzer is never on at any moment of the snooze countdown.                *)
C37_QuietOnReturn ==
    /\ pc = "afterAlarm" =>
          /\ ed.via \in {"no snooze", "skipped", "dismissed"}
          /\ ed.buzzer = "HIGH" /\ ~ed.tone
          /\ ed.redLED = "LOW" /\ ed.blueLED = "LOW"
    /\ pc = "snooze" => ed.buzzer = "HIGH" /\ ~ed.tone

\* the alert was dismissed while its pulse had the buzzer on, and soundAlarm
\* has returned
C37_Witness ==
    /\ pc = "afterAlarm" /\ ed.via = "dismissed" /\ ed.cut
    /\ ed.buzzer = "HIGH" /\ ed.i = 6

(* C38: changing the brightness leaves every other persisted setting        *)
(* unchanged: with any Up or Down press on the clockface or in the          *)
(* brightness UI the stored alarm hour, alarm minute, challenge, snooze     *)
(* minutes, snooze seconds and alarm state stay the values they were, so a  *)
(* reboot loads the alarm configuration in use.                             *)
C38_BrightnessIsFramed ==
    [][(pc \in {"loop", "brightUI"} /\ pc' = "brightUI" /\ brightness' # brightness) =>
          /\ \A a \in 0..5 : eeprom'[a] = eeprom[a]
          /\ alarmSnoozeSecs' = LoadByte(eeprom'[4], 0, 59, 0)]_vars

(* C39: for every snooze setting with minutes and seconds in 0..59 the      *)
(* snooze length ((minutes * 60) + seconds) * 1000 ms is exact: the 16-bit  *)
(* sum never exceeds 32767 and the 32-bit product never wraps, so the       *)
(* countdown lasts minutes * 60 + seconds seconds; elapsed-time comparisons *)
(* use unsigned 32-bit subtraction and remain correct when millis() wraps   *)
(* around 2^32.                                                             *)
C39_ExactAcrossWrap ==
    /\ [](pc \in {"snooze", "skipped", "alert", "afterAlarm"} =>
            /\ ed.sum = (alarmSnoozeMins * 60) + alarmSnoozeSecs
            /\ ed.sum >= 0 /\ ed.sum <= 32767
            /\ ed.snoozeMillis.hi * 65536 + ed.snoozeMillis.lo = ed.sum * 1000
            /\ ed.elapsed.hi < 128
            /\ ed.elapsed.hi * 65536 + ed.elapsed.lo = ed.real
            /\ pc = "snooze" => ed.real < ed.sum * 1000
            /\ pc = "alert" => ed.real >= ed.sum * 1000
            /\ pc = "skipped" => ed.real < 800
            /\ pc = "afterAlarm" => ed.real >= 800)
    /\ [][(pc = "snooze" /\ pc' = "alert") =>
             ed.real < ((alarmSnoozeMins * 60) + alarmSnoozeSecs) * 1000]_vars

\* 59 min 59 s, the timer taken about 39 minutes before millis() wraps: the
\* countdown went on across the wrap and has just ended
C39_Witness ==
    /\ pc = "alert" /\ alarmSnoozeMins = 59 /\ alarmSnoozeSecs = 59
    /\ ed.timer = [hi |-> 65500, lo |-> 0]
    /\ ed.millis.hi < 100 /\ ed.real >= 3599000

(* C40: a challenge session with alarmChallenge = N > 0 cannot be disabled  *)
(* with fewer than N presses, never ends without a press (there is no       *)
(* timeout), and is eventually disabled whenever from some point on every   *)
(* press the user makes equals the displayed target, whatever number of     *)
(* wrong presses came before.                                               *)
C40_ChallengeEnds ==
    /\ [](pc = "announce" => ed.presses >= alarmChallenge /\ points >= alarmChallenge)
    /\ [][ /\ (pc \in {"prompt", "poll"} /\ pressed' = 0) => pc' \in {"prompt", "poll"}
           /\ (pc \in {"prompt", "poll"} /\ pc' \notin {"prompt", "poll"}) =>
                 pressed' \in 1..4 /\ pc' \in {"correct", "incorrect"}
           /\ pc' = "announce" =>
                 pc \in {"correct", "announce"} /\ points >= alarmChallenge ]_vars
    /\ (([]<><<pc \in {"prompt", "poll"} /\ pressed' = num>>_vars)
          /\ (<>[][(pc \in {"prompt", "poll"}) => (pressed' \in {0, num})]_vars))
       => <>(pc = "announce")

\* a session with challenge 3 is disabled after wrong presses had been made
C40_Witness ==
    /\ pc = "announce" /\ alarmChallenge = 3 /\ points = 3
    /\ ed.wrong /\ ed.presses = 3

====
